---- MODULE Spec2Model ----
(***************************************************************************)
(* ts-aax: DRM key derivation, sample decryption and the conversion driver *)
(* (src/aax-decryptor.ts, src/converter.ts).                               *)
(*                                                                         *)
(* Bytes are the integers 0..255 and byte arrays (Uint8Array, Buffer) are  *)
(* sequences of bytes; JavaScript's 0-based half-open ranges [a, b) are    *)
(* kept by Slice.  node:crypto is outside the repository: SHA-1 is a       *)
(* deterministic 20-byte digest of the bytes fed to the hash object, the   *)
(* AES block function a keyed bijection on 16-byte blocks, and the         *)
(* decipher object keeps node's CBC chaining, block buffering, padding     *)
(* switch and error behaviour.                                             *)
(***************************************************************************)
EXTENDS Integers, Sequences, FiniteSets, TLC

\* ------------------------------------------------------------------ bounds

\* adrm blobs are generated from seeds 0..MaxSeed
MaxSeed == 1
\* bytes that may follow the checksum in an adrm blob (adrm[88..])
MaxExtra == 1
\* sample ciphertexts are generated from seeds 0..MaxCtSeed
MaxCtSeed == 1
\* longest name handed to sanitizeName
MaxNameLen == 3
\* largest sample count and chunk count of the sample tables resolved
MaxTableSamples == 3
MaxChunks == 3
\* most boxes in a container whose box list is scanned
MaxBoxes == 2

\* -------------------------------------------------------- program constants

BlockSize == 16
ChecksumStart == 68
ChecksumEnd == 88
BlobStart == 8
BlobEnd == 56
DigestLen == 20
\* decrypted[8:24] is the file key, decrypted[26:42] the bytes hashed into the IV
KeyStart == 8
KeyEnd == 24
IvSrcStart == 26
IvSrcEnd == 42

FIXED_KEY ==
  << 119, 33, 77, 75, 25, 106, 135, 205, 82, 0, 69, 253, 32, 165, 29, 103 >>

\* ------------------------------------------------------------ byte helpers

Byte == 0..255

Min(a, b) == IF a < b THEN a ELSE b

\* Uint8Array.prototype.slice / subarray with 0 <= a: the bytes with 0-based
\* index in [a, min(b, length)).
Slice(s, a, b) == SubSeq(s, a + 1, Min(b, Len(s)))

RECURSIVE Xor(_, _)
Xor(a, b) ==
  IF a = 0 THEN b
  ELSE IF b = 0 THEN a
  ELSE (((a % 2) + (b % 2)) % 2) + 2 * Xor(a \div 2, b \div 2)

\* The array with the elements f[1], ..., f[n], as a sequence value.
Array(f) == f \o << >>

\* A function result or a thrown Error.
Ok(v) == [ok |-> TRUE, val |-> v]
Throw == [ok |-> FALSE, val |-> << >>]

\* ------------------------------------------------ node:crypto, hash object

\* A polynomial digest of the input, computed by halves:
\* Poly(a \o b) = Poly(a) * 33^Len(b) + Poly(b) modulo 32749.
RECURSIVE Pow33(_)
Pow33(n) ==
  IF n = 0 THEN 1
  ELSE IF n % 2 = 0 THEN LET h == Pow33(n \div 2) IN (h * h) % 32749
  ELSE (33 * Pow33(n - 1)) % 32749

RECURSIVE Poly(_)
Poly(data) ==
  IF Len(data) = 0 THEN 0
  ELSE IF Len(data) = 1 THEN data[1] + 1
  ELSE LET m == Len(data) \div 2
           l == SubSeq(data, 1, m)
           r == SubSeq(data, m + 1, Len(data))
       IN  ((Poly(l) * Pow33(Len(r))) + Poly(r)) % 32749

\* createHash('sha1'): the hash object is the bytes fed to it so far.
createHash == << >>
hashUpdate(h, data) == h \o data
\* digest(): 20 bytes determined by the whole input.
digest(h) ==
  LET a == Poly(h) + (31 * Len(h))
  IN  Array([j \in 1..DigestLen |-> ((a \div j) + (a * ((2 * j) + 1)) + (7 * j)) % 256])

\* ---------------------------------------------- node:crypto, decipher object

\* The AES-128 block decryption: a bijection on 16-byte blocks for each key.
AesDecryptBlock(key, block) ==
  Array([j \in 1..BlockSize |->
           Xor(block[((j + 4) % BlockSize) + 1], (key[j] + (3 * j)) % 256)])

\* createDecipheriv('aes-128-cbc', key, iv) throws on a key or IV that is not
\* 16 bytes long; the object holds the key, the chaining block, the bytes not
\* yet forming a block, the block held back for padding removal and the
\* padding switch (on by default).
createDecipheriv(key, iv) ==
  IF Len(key) # BlockSize \/ Len(iv) # BlockSize THEN Throw
  ELSE Ok([key |-> key, prev |-> iv, buf |-> << >>, autoPadding |-> TRUE])

setAutoPadding(d, flag) == [d EXCEPT !.autoPadding = flag]

\* CBC decryption of whole blocks: plain_i = D_key(c_i) XOR c_{i-1}, c_0 = iv.
RECURSIVE CbcBlocks(_, _, _)
CbcBlocks(key, prev, data) ==
  IF Len(data) < BlockSize THEN << >>
  ELSE LET c == SubSeq(data, 1, BlockSize)
           x == AesDecryptBlock(key, c)
       IN  Array([j \in 1..BlockSize |-> Xor(x[j], prev[j])])
             \o CbcBlocks(key, c, SubSeq(data, BlockSize + 1, Len(data)))

\* The last ciphertext block of data (the next chaining block), prev if none.
LastBlock(prev, data) ==
  LET n == Len(data) \div BlockSize
  IN  IF n = 0 THEN prev ELSE SubSeq(data, (n - 1) * BlockSize + 1, n * BlockSize)

\* decipher.update(data): the plaintext of the whole blocks available; with
\* padding on, the last whole block is held back until final().
decipherUpdate(d, data) ==
  LET all    == d.buf \o data
      full   == (Len(all) \div BlockSize) * BlockSize
      hold   == IF d.autoPadding /\ full > 0 /\ full = Len(all) THEN BlockSize ELSE 0
      usable == SubSeq(all, 1, full - hold)
  IN  [out |-> CbcBlocks(d.key, d.prev, usable),
       dec |-> [d EXCEPT !.prev = LastBlock(d.prev, usable),
                         !.buf  = SubSeq(all, full - hold + 1, Len(all))]]

\* decipher.final(): with padding off, nothing more, and an Error when bytes
\* short of a block are left; with padding on, the held block without its
\* PKCS#7 padding, and an Error when the padding is malformed.
decipherFinal(d) ==
  IF ~d.autoPadding
    THEN IF d.buf = << >> THEN Ok(<< >>) ELSE Throw
    ELSE IF Len(d.buf) # BlockSize THEN Throw
         ELSE LET p == CbcBlocks(d.key, d.prev, d.buf)
                  n == p[BlockSize]
              IN  IF n >= 1 /\ n <= BlockSize
                     /\ \A j \in (BlockSize - n + 1)..BlockSize : p[j] = n
                    THEN Ok(SubSeq(p, 1, BlockSize - n))
                    ELSE Throw

\* -------------------------------------------------- src/aax-decryptor.ts

\* extractChecksum: the 20 bytes at offset 68, an Error when adrm is shorter
\* than 88 bytes.
extractChecksum(adrmContent) ==
  IF Len(adrmContent) < ChecksumEnd THEN Throw
  ELSE Ok(Slice(adrmContent, ChecksumStart, ChecksumEnd))

\* deriveIntermediateKeys: both digests in full (20 bytes each).
deriveIntermediateKeys(activationBytes) ==
  LET intermediateKeyFull ==
        digest(hashUpdate(hashUpdate(createHash, FIXED_KEY), activationBytes))
      intermediateIvFull ==
        digest(hashUpdate(hashUpdate(hashUpdate(createHash, FIXED_KEY),
                                     intermediateKeyFull), activationBytes))
  IN  [key |-> intermediateKeyFull, iv |-> intermediateIvFull]

\* Mutant: validateActivationBytes without its try/catch, so that the Error
\* of extractChecksum escapes.
validateActivationBytes_NoCatch(adrmContent, activationBytes) ==
  LET fileChecksum == extractChecksum(adrmContent)
      k == deriveIntermediateKeys(activationBytes)
      calculated ==
        digest(hashUpdate(hashUpdate(createHash, Slice(k.key, 0, BlockSize)),
                          Slice(k.iv, 0, BlockSize)))
  IN  IF ~fileChecksum.ok THEN Throw
      ELSE Ok(fileChecksum.val = calculated)

\* validateActivationBytes: the try block, and false from the catch.
validateActivationBytes(adrmContent, activationBytes) ==
  LET fileChecksum == extractChecksum(adrmContent)
      k == deriveIntermediateKeys(activationBytes)
      calculated ==
        digest(hashUpdate(hashUpdate(createHash, Slice(k.key, 0, BlockSize)),
                          Slice(k.iv, 0, BlockSize)))
  IN  IF ~fileChecksum.ok THEN Ok(FALSE)
      ELSE Ok(fileChecksum.val = calculated)

\* The plaintext of the 48-byte DRM blob as deriveKeys computes it:
\* Buffer.concat([decipher.update(encryptedBlob), decipher.final()]), an Error
\* when final() throws.
decryptBlob(adrmContent, activationBytes) ==
  LET k == deriveIntermediateKeys(activationBytes)
      intermediateKey == Slice(k.key, 0, BlockSize)
      intermediateIv  == Slice(k.iv, 0, BlockSize)
      encryptedBlob   == Slice(adrmContent, BlobStart, BlobEnd)
      created         == createDecipheriv(intermediateKey, intermediateIv)
  IN  IF ~created.ok THEN Throw
      ELSE LET decipher == setAutoPadding(created.val, FALSE)
               u == decipherUpdate(decipher, encryptedBlob)
               f == decipherFinal(u.dec)
           IN  IF ~f.ok THEN Throw ELSE Ok(u.out \o f.val)

\* Mutant: deriveKeys hashing decrypted[24:40], the 16 bytes right behind
\* the key, into the IV.
deriveKeys_ShiftedWindow(adrmContent, activationBytes) ==
  IF Len(adrmContent) < BlobEnd THEN Throw
  ELSE LET d == decryptBlob(adrmContent, activationBytes)
       IN  IF ~d.ok THEN Throw
           ELSE LET decrypted == d.val
                    fileKey == Slice(decrypted, KeyStart, KeyEnd)
                    fileIv ==
                      Slice(digest(hashUpdate(hashUpdate(hashUpdate(createHash,
                              Slice(decrypted, KeyEnd, KeyEnd + BlockSize)), fileKey), FIXED_KEY)),
                            0, BlockSize)
                IN  Ok([fileKey |-> fileKey, fileIv |-> fileIv])

\* deriveKeys: an Error for an adrm shorter than 56 bytes, else the file key
\* and IV.  The source compares nothing with the activation bytes.
deriveKeys(adrmContent, activationBytes) ==
  IF Len(adrmContent) < BlobEnd THEN Throw
  ELSE LET d == decryptBlob(adrmContent, activationBytes)
       IN  IF ~d.ok THEN Throw
           ELSE LET decrypted == d.val
                    fileKey == Slice(decrypted, KeyStart, KeyEnd)
                    fileIv ==
                      Slice(digest(hashUpdate(hashUpdate(hashUpdate(createHash,
                              Slice(decrypted, IvSrcStart, IvSrcEnd)), fileKey), FIXED_KEY)),
                            0, BlockSize)
                IN  Ok([fileKey |-> fileKey, fileIv |-> fileIv])

\* Mutant: decryptSample without decipher.setAutoPadding(false).
decryptSample_AutoPadding(encrypted, key, iv) ==
  LET blockSize == BlockSize
      alignedLength == (Len(encrypted) \div blockSize) * blockSize
      remainder == Len(encrypted) - alignedLength
  IN  IF alignedLength = 0 THEN Ok(encrypted)
      ELSE LET encryptedPart == Slice(encrypted, 0, alignedLength)
               created == createDecipheriv(key, iv)
           IN  IF ~created.ok THEN Throw
               ELSE LET decrypted == decipherUpdate(created.val, encryptedPart).out
                    IN  IF remainder > 0
                          THEN Ok(decrypted \o Slice(encrypted, alignedLength, Len(encrypted)))
                          ELSE Ok(decrypted)

\* Mutant: decryptSample appending encrypted.subarray(0, remainder), the first
\* bytes of the ciphertext, as the tail.
decryptSample_TailFromStart(encrypted, key, iv) ==
  LET blockSize == BlockSize
      alignedLength == (Len(encrypted) \div blockSize) * blockSize
      remainder == Len(encrypted) - alignedLength
  IN  IF alignedLength = 0 THEN Ok(encrypted)
      ELSE LET encryptedPart == Slice(encrypted, 0, alignedLength)
               created == createDecipheriv(key, iv)
           IN  IF ~created.ok THEN Throw
               ELSE LET decipher  == setAutoPadding(created.val, FALSE)
                        decrypted == decipherUpdate(decipher, encryptedPart).out
                    IN  IF remainder > 0
                          THEN Ok(decrypted \o Slice(encrypted, 0, remainder))
                          ELSE Ok(decrypted)

\* decryptSample: the input itself when it holds no whole block; else the
\* plaintext of the whole blocks (update only, final() is never called)
\* followed by the trailing bytes.
decryptSample(encrypted, key, iv) ==
  LET blockSize == BlockSize
      alignedLength == (Len(encrypted) \div blockSize) * blockSize
      remainder == Len(encrypted) - alignedLength
  IN  IF alignedLength = 0 THEN Ok(encrypted)
      ELSE LET encryptedPart == Slice(encrypted, 0, alignedLength)
               created == createDecipheriv(key, iv)
           IN  IF ~created.ok THEN Throw
               ELSE LET decipher  == setAutoPadding(created.val, FALSE)
                        decrypted == decipherUpdate(decipher, encryptedPart).out
                    IN  IF remainder > 0
                          THEN Ok(decrypted \o Slice(encrypted, alignedLength, Len(encrypted)))
                          ELSE Ok(decrypted)

\* Text is a sequence of one-character strings.
HexDigits ==
  << "0", "1", "2", "3", "4", "5", "6", "7", "8", "9", "a", "b", "c", "d", "e", "f" >>
UpperHex == << "A", "B", "C", "D", "E", "F" >>
Whitespace == { " ", "\t", "\n" }

IsHexChar(c) ==
  \/ \E i \in 1..Len(HexDigits) : HexDigits[i] = c
  \/ \E i \in 1..Len(UpperHex) : UpperHex[i] = c

HexVal(c) ==
  IF \E i \in 1..Len(HexDigits) : HexDigits[i] = c
    THEN (CHOOSE i \in 1..Len(HexDigits) : HexDigits[i] = c) - 1
    ELSE (CHOOSE i \in 1..Len(UpperHex) : UpperHex[i] = c) + 9

\* String.prototype.toLowerCase on the characters the model uses.
toLowerCase(str) ==
  Array([i \in 1..Len(str) |->
           IF \E j \in 1..Len(UpperHex) : UpperHex[j] = str[i]
             THEN HexDigits[10 + (CHOOSE j \in 1..Len(UpperHex) : UpperHex[j] = str[i])]
             ELSE str[i]])

\* hexString.replace(/\s/g, '')
RECURSIVE StripWhitespace(_)
StripWhitespace(str) ==
  IF str = << >> THEN << >>
  ELSE IF Head(str) \in Whitespace THEN StripWhitespace(Tail(str))
  ELSE << Head(str) >> \o StripWhitespace(Tail(str))

\* Mutant: a decoder that knows the lowercase digits only and reads every
\* other character as 0.
parseActivationBytes_LowercaseDigitsOnly(hexString) ==
  LET hex == StripWhitespace(hexString)
      val(c) == IF \E i \in 1..Len(HexDigits) : HexDigits[i] = c THEN HexVal(c) ELSE 0
  IN  IF Len(hex) # 8 \/ ~(\A i \in 1..Len(hex) : IsHexChar(hex[i])) THEN Throw
      ELSE Ok(Array([i \in 1..4 |-> 16 * val(hex[2 * i - 1]) + val(hex[2 * i])]))

\* Mutant: the two hex digits of each byte taken in the opposite order.
parseActivationBytes_SwappedNibbles(hexString) ==
  LET hex == StripWhitespace(hexString)
  IN  IF Len(hex) # 8 \/ ~(\A i \in 1..Len(hex) : IsHexChar(hex[i])) THEN Throw
      ELSE Ok(Array([i \in 1..4 |-> 16 * HexVal(hex[2 * i]) + HexVal(hex[2 * i - 1])]))

\* parseActivationBytes: Buffer.from(hex, 'hex') of the text without its
\* whitespace, an Error unless that is 8 hex digits.
parseActivationBytes(hexString) ==
  LET hex == StripWhitespace(hexString)
  IN  IF Len(hex) # 8 \/ ~(\A i \in 1..Len(hex) : IsHexChar(hex[i])) THEN Throw
      ELSE Ok(Array([i \in 1..4 |-> 16 * HexVal(hex[2 * i - 1]) + HexVal(hex[2 * i])]))

\* isValidActivationCode: /^[0-9a-f]{8}$/i.test(code), on the text as given.
isValidActivationCode(code) ==
  Len(code) = 8 /\ \A i \in 1..Len(code) : IsHexChar(code[i])

\* ------------------------------------------------------------ input files

\* Bytes of generated content.
GenBytes(seed, n) == Array([i \in 1..n |-> ((seed * 37) + (i * 11)) % 256])

Reverse(s) == Array([i \in 1..Len(s) |-> s[Len(s) + 1 - i]])

\* The encrypting side of the decipher object, as the producer of an AAX file
\* applies it: the inverse of AesDecryptBlock and CBC chaining.
AesEncryptBlock(key, block) ==
  Array([i \in 1..BlockSize |->
           LET j == ((i + 10) % BlockSize) + 1
           IN  Xor(block[j], (key[j] + (3 * j)) % 256)])

RECURSIVE CbcEncrypt(_, _, _)
CbcEncrypt(key, prev, data) ==
  IF Len(data) < BlockSize THEN << >>
  ELSE LET p == SubSeq(data, 1, BlockSize)
           c == AesEncryptBlock(key, Array([j \in 1..BlockSize |-> Xor(p[j], prev[j])]))
       IN  c \o CbcEncrypt(key, c, SubSeq(data, BlockSize + 1, Len(data)))

\* An adrm box content laid out as the source documents it: header, 48-byte
\* encrypted DRM blob, separator, 20-byte checksum, additional data.  The
\* file is bound to activation a0; goodPayload / goodChecksum say whether the
\* blob's plaintext starts with reverse(a0) and whether the checksum is the
\* one a0 validates against.  len cuts the content short.
MakeAdrm(a0, seed, goodPayload, goodChecksum, len) ==
  LET k  == deriveIntermediateKeys(a0)
      ik == Slice(k.key, 0, BlockSize)
      iv == Slice(k.iv, 0, BlockSize)
      payload == (IF goodPayload THEN Reverse(a0) ELSE GenBytes(seed + 1, 4))
                   \o GenBytes(seed + 2, (BlobEnd - BlobStart) - 4)
      checksum == IF goodChecksum
                    THEN digest(hashUpdate(hashUpdate(createHash, ik), iv))
                    ELSE GenBytes(seed + 4, DigestLen)
      full == GenBytes(seed, BlobStart) \o CbcEncrypt(ik, iv, payload)
                \o GenBytes(seed + 3, ChecksumStart - BlobEnd) \o checksum
                \o GenBytes(seed + 5, MaxExtra)
  IN  SubSeq(full, 1, Min(len, Len(full)))

\* Activation values: 1CEB00DA, 00000000, DA00EB1C.
ActSet == { << 28, 235, 0, 218 >>, << 0, 0, 0, 0 >>, << 218, 0, 235, 28 >> }

AdrmLens == { 0, BlobEnd - 1, BlobEnd, ChecksumEnd - 1, ChecksumEnd, ChecksumEnd + MaxExtra }

AdrmSet ==
  { MakeAdrm(a0, seed, gp, gc, len) :
      a0 \in { << 28, 235, 0, 218 >>, << 0, 0, 0, 0 >> }, seed \in 0..MaxSeed,
      gp \in BOOLEAN, gc \in BOOLEAN, len \in AdrmLens }

\* Sample ciphertext lengths around the block boundaries.
CtLens == { 0, 1, BlockSize - 1, BlockSize, BlockSize + 1, 2 * BlockSize,
            (2 * BlockSize) + 1, 3 * BlockSize }
CtSet == { GenBytes(seed, n) : seed \in 0..MaxCtSeed, n \in CtLens }
KeySet == { GenBytes(3, BlockSize), Array([i \in 1..BlockSize |-> 66]) }
IvSet == { GenBytes(9, BlockSize), Array([i \in 1..BlockSize |-> 36]) }

\* Activation code texts: the bound code in upper and lower case, a code of
\* another account, and malformed texts.
Code1CEB00DA == << "1", "C", "E", "B", "0", "0", "D", "A" >>
CodeSet ==
  { Code1CEB00DA,
    << "1", "c", "e", "b", "0", "0", "d", "a" >>,
    << "0", "0", "0", "0", "0", "0", "0", "0" >>,
    << "1", "C", "E", "B", " ", "0", "0", "D", "A" >>,
    << "Z", "Z", "Z", "Z", "Z", "Z", "Z", "Z" >>,
    << "1", "2", "3", "4", "5" >> }

\* Undefined or empty text (both falsy).
NoText == << >>

\* Texts handed to parseActivationBytes and isValidActivationCode: the codes
\* above, the texts of the test suite, and every text that differs from an
\* 8-digit code by one character replaced, inserted or removed.
EditChars == { "0", "f", "F", "g", "G", "Z", " ", "\t", "\n" }
ReplaceAt(str, p, c) == Array([i \in 1..Len(str) |-> IF i = p THEN c ELSE str[i]])
InsertAt(str, p, c) == SubSeq(str, 1, p) \o << c >> \o SubSeq(str, p + 1, Len(str))
RemoveAt(str, p) == SubSeq(str, 1, p - 1) \o SubSeq(str, p + 1, Len(str))
BaseCodes == { Code1CEB00DA, << "a", "b", "c", "d", "e", "f", "0", "1" >> }
TextSet ==
  CodeSet
  \cup { NoText,
         << "A", "B", "C", "D", "E", "F", "0", "1" >>,
         << "I", "N", "V", "A", "L", "I", "D" >>,
         << "1", "2", "3", "4", "5", "6", "7", "8", "9" >> }
  \cup { ReplaceAt(b, p, c) : b \in BaseCodes, p \in 1..8, c \in EditChars }
  \cup { InsertAt(b, p, c) : b \in BaseCodes, p \in 0..8, c \in EditChars }
  \cup { RemoveAt(b, p) : b \in BaseCodes, p \in 1..8 }

\* Sample tables.  Sample i has a size and a duration in ticks drawn from a
\* fixed cycle; samples lie one after the other in the source,
\* except sample `bad` (if any), whose bytes lie past the end of the source.
SizeCycle == << BlockSize + 1, 2 * BlockSize, 5, BlockSize >>
DurCycle == << 1024, 0, 1024, 512 >>
SizeOf(i) == SizeCycle[((i - 1) % Len(SizeCycle)) + 1]
DurOf(i) == DurCycle[((i - 1) % Len(DurCycle)) + 1]

RECURSIVE SumSizes(_)
SumSizes(n) == IF n = 0 THEN 0 ELSE SizeOf(n) + SumSizes(n - 1)

\* Samples lie one after the other behind the 40 bytes before the payload.
SampleOffset(i) == 40 + SumSizes(i - 1)
SourceLen(n) == SampleOffset(n + 1)

SampleTable(n, bad) ==
  [i \in 1..n |->
     [offset   |-> IF i = bad THEN SourceLen(n) - 1 ELSE SampleOffset(i),
      size     |-> SizeOf(i),
      duration |-> DurOf(i)]]

\* The byte of the source file at a 0-based position.
SourceByte(pos) == ((pos * 7) + 13) % 256

\* Largest sample table of the model.
MaxSamples == 2

\* Timescales an mdhd box can carry (a 32-bit field, zero included).
Timescales == { 0, 44100 }

\* The chapters of the input: a title and a start time in seconds each.
BookChapters ==
  << [title |-> << "I", "n", "t", "r", "o" >>, startTime |-> 0],
     [title |-> << "T", "h", "e", " ", "W", "e", "l", "l" >>, startTime |-> 30] >>

\* What parseAaxFile yields for the input file: an Error, or the AaxFileInfo
\* fields the driver reads.
AaxFiles ==
  { [parses |-> FALSE, adrmContent |-> << >>, samples |-> << >>, timescale |-> 44100,
     sourceLen |-> 0, coverImage |-> FALSE, chapters |-> << >>] }
  \cup
  { [parses |-> TRUE, adrmContent |-> adrm, samples |-> SampleTable(n, bad),
     timescale |-> ts, sourceLen |-> SourceLen(n), coverImage |-> cover,
     chapters |-> BookChapters] :
      adrm \in { MakeAdrm(<< 28, 235, 0, 218 >>, 0, TRUE, TRUE, ChecksumEnd + MaxExtra),
                 MakeAdrm(<< 28, 235, 0, 218 >>, 0, FALSE, TRUE, ChecksumEnd),
                 MakeAdrm(<< 28, 235, 0, 218 >>, 0, TRUE, FALSE, ChecksumEnd),
                 MakeAdrm(<< 28, 235, 0, 218 >>, 0, TRUE, TRUE, ChecksumEnd - 1) },
      n \in 0..MaxSamples, bad \in 0..MaxSamples, ts \in Timescales, cover \in BOOLEAN }

\* ------------------------------------------------------------------ state

VARIABLES
  options,           \* ConversionOptions passed to convertAAX
  env,               \* config.activationCode, the Audible CLI's answer, the files on disk
  aaxFile,           \* the input file as parseAaxFile reads it
  pc,                \* position in convertAAX
  activationCode,    \* the resolved activation text
  activationBytes,   \* the activation bytes in use
  attempts,          \* validateActivationBytes calls made: << [bytes, valid] >>
  keys,              \* DecryptionKeys, once derived
  deriveCalls,       \* number of deriveKeys calls
  source,            \* the input's FileSource: "none", "open", "closed"
  outDir,            \* TRUE once mkdirSync created the output directory
  outFile,           \* this conversion's file at outputPath: "absent", "partial", "complete"
  coverFile,         \* TRUE once cover.jpg was written
  target,            \* FileTarget: "none", "open", "closed"
  muxer,             \* Mp4Muxer: "none", "created", "started", "finalized"
  brand,             \* the major brand the muxer was constructed with
  addedChapters,     \* chapters handed to muxer.addChapter, in order
  sampleIndex,       \* 1-based index of the sample the loop is at
  encrypted,         \* bytes of the sample read and not yet written
  packets,           \* packets handed to muxer.writePacket, in order
  writePending,      \* TRUE while a writePacket call has not completed
  timestamp,         \* running timestamp, seconds
  processedSamples,  \* count of completed writes
  result,            \* the ConversionResult returned
  call,              \* a direct call of an aax-decryptor function and its arguments
  ret,               \* what that call returned
  scan               \* a box list scan of aax-parser: its data, offset and state

inputs == << options, env, aaxFile >>
driver == << pc, activationCode, activationBytes, attempts, keys, deriveCalls, source,
             outDir, outFile, coverFile, target, muxer, brand, addedChapters, sampleIndex, encrypted, packets,
             writePending, timestamp, processedSamples, result >>
direct == << call, ret, scan >>
vars == << inputs, driver, direct >>

\* ---------------------------------------- numbers (IEEE doubles, seconds)

\* A duration or timestamp in seconds: a count of 1/timescale when the
\* timescale is not zero, and the values the division by a zero timescale
\* gives, Infinity (n / 0) and NaN (0 / 0).
Num(n) == [kind |-> "num", n |-> n]
Infinity == [kind |-> "inf", n |-> 0]
NaN == [kind |-> "nan", n |-> 0]

\* sample.duration / aaxInfo.timescale
Seconds(ticks, timescale) ==
  IF timescale # 0 THEN Num(ticks)
  ELSE IF ticks = 0 THEN NaN ELSE Infinity

\* x + y
FAdd(x, y) ==
  IF x.kind = "nan" \/ y.kind = "nan" THEN NaN
  ELSE IF x.kind = "inf" \/ y.kind = "inf" THEN Infinity
  ELSE Num(x.n + y.n)

\* x <= y
FLeq(x, y) ==
  /\ x.kind # "nan" /\ y.kind # "nan"
  /\ \/ y.kind = "inf"
     \/ x.kind = "num" /\ y.kind = "num" /\ x.n <= y.n

\* ------------------------------------------------------ src/aax-parser.ts

\* A value that may be null.
None == [present |-> FALSE, val |-> << >>]
Some(v) == [present |-> TRUE, val |-> v]

\* parseAudioSampleEntry, lines 412-423: an adrm child box gives adrmContent
\* whatever its length, and the checksum only when it has 88 bytes.
parseAudioSampleEntry(adrmBox, res) ==
  IF ~adrmBox.present THEN res
  ELSE [res EXCEPT
          !.adrmContent = Some(adrmBox.val),
          !.checksum = IF Len(adrmBox.val) >= ChecksumEnd
                         THEN Some(Slice(adrmBox.val, ChecksumStart, ChecksumEnd))
                         ELSE res.checksum]

\* buildSampleTable, lines 553-557: stts entries expanded to one duration per sample.
RECURSIVE ExpandStts(_)
ExpandStts(entries) ==
  IF entries = << >> THEN << >>
  ELSE Array([i \in 1..Head(entries).count |-> Head(entries).delta])
         \o ExpandStts(Tail(entries))

\* Mutant: the first stsc entry whose firstChunk is not beyond the chunk.
SamplesInChunk_FirstMatch(stscEntries, i, chunkIdx) ==
  LET matching == { j \in 1..Len(stscEntries) : chunkIdx + 1 >= stscEntries[j].firstChunk }
  IN  IF matching = { } THEN 1
      ELSE stscEntries[CHOOSE j \in matching : \A k \in matching : j <= k].samplesPerChunk

\* Lines 563-570: samples per chunk, from the last stsc entry whose firstChunk
\* is not beyond chunk chunkIdx (0-based); 1 without such an entry.
RECURSIVE SamplesInChunk(_, _, _)
SamplesInChunk(stscEntries, i, chunkIdx) ==
  IF i = 0 THEN 1
  ELSE IF chunkIdx + 1 >= stscEntries[i].firstChunk THEN stscEntries[i].samplesPerChunk
  ELSE SamplesInChunk(stscEntries, i - 1, chunkIdx)

\* Lines 572-583: the samples of one chunk, from sample index (0-based) on.
RECURSIVE ChunkSamples(_, _, _, _, _, _)
ChunkSamples(sampleSizes, durations, index, s, samplesInChunk, offset) ==
  IF ~(s < samplesInChunk /\ index < Len(sampleSizes)) THEN << >>
  ELSE << [offset   |-> offset,
           size     |-> sampleSizes[index + 1],
           duration |-> IF index < Len(durations) THEN durations[index + 1] ELSE 0] >>
         \o ChunkSamples(sampleSizes, durations, index + 1, s + 1, samplesInChunk,
                         offset + sampleSizes[index + 1])

\* Lines 559-585: walk the chunks in order.
RECURSIVE WalkChunks(_, _, _, _, _, _)
WalkChunks(chunkOffsets, stscEntries, sampleSizes, durations, chunkIdx, index) ==
  IF ~(chunkIdx < Len(chunkOffsets) /\ index < Len(sampleSizes)) THEN << >>
  ELSE LET inChunk == ChunkSamples(sampleSizes, durations, index, 0,
                                   SamplesInChunk(stscEntries, Len(stscEntries), chunkIdx),
                                   chunkOffsets[chunkIdx + 1])
       IN  inChunk \o WalkChunks(chunkOffsets, stscEntries, sampleSizes, durations,
                                 chunkIdx + 1, index + Len(inChunk))

\* Lines 488-505: the sample sizes of an stsz box, which carries a default
\* size, the sample count and the sizes its content has room for: the first
\* sampleCount of these, or sampleCount times the default when that is not 0.
SampleSizes(stsz) ==
  IF stsz.defaultSampleSize = 0
    THEN SubSeq(stsz.entries, 1, Min(stsz.sampleCount, Len(stsz.entries)))
    ELSE Array([i \in 1..stsz.sampleCount |-> stsz.defaultSampleSize])

\* buildSampleTable on the decoded tables: co64 is preferred to stco, a
\* missing stsc means no entries.
buildSampleTable(stts, stsc, stsz, stco, co64) ==
  LET chunkOffsets == IF co64.present THEN co64.val ELSE IF stco.present THEN stco.val ELSE << >>
      stscEntries == IF stsc.present THEN stsc.val ELSE << >>
  IN  WalkChunks(chunkOffsets, stscEntries, SampleSizes(stsz.val), ExpandStts(stts.val), 0, 0)

\* parseStbl, lines 324-367: the sample table is built only when stts, stsz
\* and a chunk offset box are there; otherwise the samples stay as they were.
parseStbl(stbl, res) ==
  LET withEntry == parseAudioSampleEntry(stbl.adrm, res)
  IN  IF stbl.stts.present /\ stbl.stsz.present /\ (stbl.stco.present \/ stbl.co64.present)
        THEN [withEntry EXCEPT
                !.samples = buildSampleTable(stbl.stts, stbl.stsc, stbl.stsz, stbl.stco, stbl.co64)]
        ELSE withEntry

\* parseMoov, lines 183-215, with parseTrak/parseMdia/parseMdhd/parseMinf: the
\* defaults, overwritten by what the audio track (handler soun) carries; the
\* text track's timescale and samples become chapterTrack.
parseMoov(moov) ==
  LET initial == [adrmContent |-> None, checksum |-> None, timescale |-> 44100,
                  samples |-> << >>, chapterTrack |-> None]
      audio == IF moov.audio.present
                 THEN parseStbl(moov.audio.val.stbl,
                                [initial EXCEPT !.timescale = moov.audio.val.timescale])
                 ELSE initial
  IN  [audio EXCEPT !.chapterTrack = moov.text]

\* readChaptersFromTextTrack, lines 439-465.  acc is the chapters so far.
RECURSIVE ReadChapters(_, _, _, _, _)
ReadChapters(timescale, samples, i, cumulativeTime, acc) ==
  IF i > Len(samples) THEN acc
  ELSE LET sample == samples[i]
           startTimeSec == Seconds(cumulativeTime, timescale)
           after == cumulativeTime + sample.duration
           data == sample.data
       IN  IF ~data.present \/ Len(data.val) < 2
             THEN ReadChapters(timescale, samples, i + 1, after, acc)
             ELSE LET textLen == (data.val[1] * 256) + data.val[2]
                      title == Slice(data.val, 2, 2 + textLen)
                  IN  ReadChapters(timescale, samples, i + 1, after,
                                   Append(acc, [title |-> title,
                                                startTime |-> startTimeSec,
                                                endTime |-> Seconds(after, timescale)]))

readChaptersFromTextTrack(parsed) ==
  IF ~parsed.chapterTrack.present \/ Len(parsed.chapterTrack.val.samples) = 0 THEN << >>
  ELSE ReadChapters(parsed.chapterTrack.val.timescale, parsed.chapterTrack.val.samples,
                    1, 0, << >>)

\* String.prototype.trim on a brand of four characters.
TrimBrand(majorBrand) ==
  CASE majorBrand = "aax " -> "aax" [] majorBrand = "M4B " -> "M4B" [] OTHER -> majorBrand

\* parseAaxFile, lines 69-164: ftyp with brand aax or M4B, the moov box, the
\* chapters, and an Error only when no adrm box was found.  The checksum
\* field is what parseMoov left (null for an adrm shorter than 88 bytes).
parseAaxFile(file) ==
  IF file.ftyp = "none" THEN Throw
  ELSE IF TrimBrand(file.ftyp) # "aax" /\ TrimBrand(file.ftyp) # "M4B" THEN Throw
  ELSE IF ~file.moov.present THEN Throw
  ELSE LET parsed == parseMoov(file.moov.val)
           chapters == readChaptersFromTextTrack(parsed)
       IN  IF ~parsed.adrmContent.present THEN Throw
           ELSE Ok([adrmContent |-> parsed.adrmContent.val,
                    checksum |-> parsed.checksum,
                    timescale |-> parsed.timescale,
                    samples |-> parsed.samples,
                    chapters |-> chapters])

\* Input containers for parseAaxFile, as the boxes found in them.

\* Largest chapter text track of the model.
MaxChapters == 3

\* What reader.readBytes yields for a text sample: null, one byte, or a
\* 2-byte length and the text "Hi".
TextData == { None, Some(<< 0 >>), Some(<< 0, 2, 72, 105 >>) }

\* Text tracks: up to MaxChapters samples of 1000, 2000, ... ticks, with a
\* timescale of 1000 or (a 32-bit field) zero.
TextTracks ==
  { [timescale |-> ts,
     samples |-> Array([i \in 1..n |-> [duration |-> 1000 * i, data |-> kinds[i]]])] :
      ts \in { 1000, 0 }, n \in 0..MaxChapters, kinds \in [1..MaxChapters -> TextData] }

\* The sample table boxes of an audio track of n samples, one sample per
\* chunk, each box there or not, and the adrm box of its sample entry.
StblSet(n) ==
  { [adrm |-> adrm,
     stts |-> IF f[1] THEN Some(<< [count |-> n, delta |-> 1024] >>) ELSE None,
     stsc |-> IF f[2] THEN Some(<< [firstChunk |-> 1, samplesPerChunk |-> 1] >>) ELSE None,
     stsz |-> IF f[3] THEN Some([defaultSampleSize |-> 0, sampleCount |-> n,
                                 entries |-> Array([i \in 1..n |-> SizeOf(i)])])
                      ELSE None,
     stco |-> IF f[4] THEN Some(Array([i \in 1..n |-> SampleOffset(i)])) ELSE None,
     co64 |-> IF f[5] THEN Some(Array([i \in 1..n |-> SampleOffset(i)])) ELSE None] :
      f \in [1..5 -> BOOLEAN],
      adrm \in { None,
                 Some(MakeAdrm(<< 28, 235, 0, 218 >>, 0, TRUE, TRUE, ChecksumEnd + MaxExtra)),
                 Some(MakeAdrm(<< 28, 235, 0, 218 >>, 0, TRUE, TRUE, ChecksumEnd - 1)) } }

\* The tables buildSampleTable is called with (parseStbl calls it only with
\* stts, stsz and a chunk offset box there): durations for all or too few
\* samples; no stsc, or entries for one or two samples per chunk, from the
\* first chunk or a later one; sizes listed or a default, the list complete
\* or cut short; up to MaxChunks chunks 100 bytes apart, in stco or co64.
SttsTables ==
  { << >>,
    << [count |-> MaxTableSamples, delta |-> 1024] >>,
    << [count |-> 1, delta |-> 1024], [count |-> 1, delta |-> 512] >> }

StscTables ==
  { None, Some(<< >>),
    Some(<< [firstChunk |-> 1, samplesPerChunk |-> 1] >>),
    Some(<< [firstChunk |-> 1, samplesPerChunk |-> 2] >>),
    Some(<< [firstChunk |-> 1, samplesPerChunk |-> 2],
            [firstChunk |-> 2, samplesPerChunk |-> 1] >>),
    Some(<< [firstChunk |-> 1, samplesPerChunk |-> 1],
            [firstChunk |-> 2, samplesPerChunk |-> 2] >>),
    Some(<< [firstChunk |-> 1, samplesPerChunk |-> 1],
            [firstChunk |-> 3, samplesPerChunk |-> 2] >>),
    Some(<< [firstChunk |-> 2, samplesPerChunk |-> 2] >>) }

StszTables ==
  { [defaultSampleSize |-> d, sampleCount |-> n,
     entries |-> Array([i \in 1..(IF d # 0 THEN 0 ELSE n - cut) |-> SizeOf(i)])] :
      d \in { 0, 7 }, n \in 0..MaxTableSamples, cut \in { 0, 1 } }

ChunkOffsetTables(base) ==
  { Array([c \in 1..n |-> base + 100 * c]) : n \in 0..MaxChunks }

TableSet ==
  LET all == { [stts |-> Some(stts), stsc |-> stsc, stsz |-> Some(stsz),
                stco |-> stco, co64 |-> co64] :
                 stts \in SttsTables, stsc \in StscTables, stsz \in StszTables,
                 stco \in { None } \cup { Some(t) : t \in ChunkOffsetTables(0) },
                 co64 \in { None, Some(<< 4000, 4100 >>) } }
  IN  { t \in all : t.stco.present \/ t.co64.present }

\* An intact file: all boxes there, adrm of full length, no text track.
GoodStbl(n) ==
  CHOOSE stbl \in StblSet(n) :
    /\ stbl.adrm.present /\ Len(stbl.adrm.val) >= ChecksumEnd
    /\ stbl.stts.present /\ stbl.stsc.present /\ stbl.stsz.present
    /\ stbl.stco.present /\ ~stbl.co64.present

Container(ftyp, hasMoov, hasAudio, stbl, timescale, text) ==
  [ftyp |-> ftyp,
   moov |-> IF hasMoov
              THEN Some([audio |-> IF hasAudio THEN Some([timescale |-> timescale, stbl |-> stbl])
                                    ELSE None,
                         text |-> text])
              ELSE None]

\* The files parseAaxFile is called on: the intact file with its sample table
\* boxes and adrm varied, with each text track, and with ftyp, moov and the
\* audio track missing or of another brand.
ContainerSet ==
  { Container("aax ", TRUE, TRUE, stbl, 44100, None) : stbl \in StblSet(MaxSamples) }
  \cup { Container("aax ", TRUE, TRUE, GoodStbl(MaxSamples), ts, Some(text)) :
           text \in TextTracks, ts \in Timescales }
  \cup { Container(ftyp, hasMoov, hasAudio, GoodStbl(MaxSamples), 44100, None) :
           ftyp \in { "none", "aax ", "M4B ", "isom" }, hasMoov \in BOOLEAN,
           hasAudio \in BOOLEAN }

\* ------------------------------------------- src/aax-parser.ts, box lists

\* readU32 and readFourCC, lines 588-598, at a 0-based offset.
readU32(data, offset) ==
  data[offset + 1] * 16777216 + data[offset + 2] * 65536
    + data[offset + 3] * 256 + data[offset + 4]

readFourCC(data, offset) == SubSeq(data, offset + 1, offset + 4)

\* Box types and the brand, as their four character codes.
TypeFtyp == << 102, 116, 121, 112 >>
TypeMoov == << 109, 111, 111, 118 >>
TypeHdlr == << 104, 100, 108, 114 >>
TypeFree == << 102, 114, 101, 101 >>
BrandAax == << 97, 97, 120, 32 >>

\* A 64-bit size with a non-zero high word, hi * 0x100000000 + lo, lies
\* beyond the end of every file here; Huge stands for it.
Huge == 1073741824
ExtendedSize(hi, lo) == IF hi = 0 THEN lo ELSE Huge

\* readBoxHeader, lines 49-64, with the reader at pos: null when the size,
\* the type or the extended size cannot be read, else the size and type (and
\* the bytes the header took).
readBoxHeader(file, pos) ==
  IF pos + 8 > Len(file) THEN None
  ELSE LET size == readU32(file, pos)
           type == readFourCC(file, pos + 4)
       IN  IF size = 1
             THEN IF pos + 16 > Len(file) THEN None
                  ELSE Some([size |-> ExtendedSize(readU32(file, pos + 8),
                                                   readU32(file, pos + 12)),
                             type |-> type, headerSize |-> 16])
             ELSE Some([size |-> size, type |-> type, headerSize |-> 8])

\* The functions that scan a box list with the loop
\*   while (offset < data.length - 8) { size, type; if (size < 8 || offset +
\*   size > data.length) break; ...; offset += size }
\* and the offset each starts at.
BoxLoopFns ==
  { "parseMoov", "parseTrak", "getHandlerType", "parseMdia", "parseMinf", "parseStbl",
    "parseAudioSampleEntry" }

StartOffset(fn) ==
  CASE fn = "parseAudioSampleEntry" -> 36
    [] fn = "parseStsd" -> 8
    [] OTHER -> 0

\* No scan is running.  seen is the set of box headers read, each the offset
\* it was read at and its size.
NoScan ==
  [fn |-> "none", data |-> << >>, offset |-> 0, index |-> 0, state |-> "idle", seen |-> { }]

\* Bytes of boxes: a 32-bit size, a type, content.
U32(n) == << (n \div 16777216) % 256, (n \div 65536) % 256, (n \div 256) % 256, n % 256 >>
Zeros(n) == Array([i \in 1..n |-> 0])

\* Boxes a list is made of: well-formed boxes of 8, 12 and 24 bytes (the
\* last an hdlr box of handler type soun), a moov box, and boxes whose size
\* field is 0, between 2 and 7, 1 with an extended size of 0, of 16 or with a
\* high word, and larger than what is left of the container.
BoxKinds ==
  { U32(8) \o TypeFree,
    U32(12) \o TypeFree \o Zeros(4),
    U32(24) \o TypeHdlr \o Zeros(8) \o << 115, 111, 117, 110 >> \o Zeros(4),
    U32(16) \o TypeMoov \o Zeros(8),
    U32(0) \o TypeFree,
    U32(4) \o TypeFree,
    U32(1) \o TypeFree \o U32(0) \o U32(0),
    U32(1) \o TypeFree \o U32(0) \o U32(16),
    U32(1) \o TypeFree \o U32(1) \o U32(0),
    U32(64) \o TypeFree }

\* Box lists of up to n boxes.
RECURSIVE BoxLists(_)
BoxLists(n) ==
  IF n = 0 THEN { << >> }
  ELSE BoxLists(n - 1) \cup { l \o b : l \in BoxLists(n - 1), b \in BoxKinds }

\* A call of one of the box loop functions on the content of its box: the
\* offset is set to its start, and parseAudioSampleEntry returns at once on
\* less than the 36 bytes of its fixed part (line 396).
EnterBoxLoop ==
  /\ scan.state = "idle"
  /\ \E fn \in BoxLoopFns, list \in BoxLists(MaxBoxes) :
       LET data == Zeros(StartOffset(fn)) \o list
       IN  scan' = [NoScan EXCEPT !.fn = fn, !.data = data, !.offset = StartOffset(fn),
                                  !.state = "running"]
  /\ UNCHANGED << inputs, driver, call, ret >>

\* One pass of the loop (parseMoov lines 198-212, and the same in parseTrak,
\* getHandlerType, parseMdia, parseMinf, parseStbl, parseAudioSampleEntry).
\* getHandlerType returns from inside the loop on an hdlr box that holds its
\* handler type (lines 258-263).
BoxLoopStep ==
  /\ scan.state = "running"
  /\ scan.fn \in BoxLoopFns
  /\ LET data == scan.data
         offset == scan.offset
         size == readU32(data, offset)
         type == readFourCC(data, offset + 4)
     IN  IF ~(offset < Len(data) - 8)
           THEN scan' = [scan EXCEPT !.state = "returned"]
           ELSE IF size < 8 \/ offset + size > Len(data)
             THEN scan' = [scan EXCEPT !.state = "returned",
                                       !.seen = @ \cup { [offset |-> offset, size |-> size] }]
           ELSE IF scan.fn = "getHandlerType" /\ type = TypeHdlr /\ offset + 20 <= Len(data)
             THEN scan' = [scan EXCEPT !.state = "returned",
                                       !.seen = @ \cup { [offset |-> offset, size |-> size] }]
           ELSE scan' = [scan EXCEPT !.offset = offset + size,
                                     !.seen = @ \cup { [offset |-> offset, size |-> size] }]
  /\ UNCHANGED << inputs, driver, call, ret >>

\* parseStsd, lines 369-374: returns at once on less than 8 bytes, else reads
\* the entry count and starts behind it.
EnterParseStsd ==
  /\ scan.state = "idle"
  /\ \E count \in 0..(MaxBoxes + 1), list \in BoxLists(MaxBoxes), cut \in BOOLEAN :
       LET data == IF cut THEN Zeros(4) ELSE Zeros(4) \o U32(count) \o list
       IN  scan' = [NoScan EXCEPT !.fn = "parseStsd", !.data = data, !.offset = 8,
                                  !.state = IF Len(data) < 8 THEN "returned" ELSE "running"]
  /\ UNCHANGED << inputs, driver, call, ret >>

\* One pass of parseStsd's loop over the sample entries, lines 375-385.
ParseStsdStep ==
  /\ scan.state = "running"
  /\ scan.fn = "parseStsd"
  /\ LET data == scan.data
         offset == scan.offset
         entryCount == readU32(data, 4)
         entrySize == readU32(data, offset)
     IN  IF ~(scan.index < entryCount /\ offset < Len(data) - 8)
           THEN scan' = [scan EXCEPT !.state = "returned"]
           ELSE IF entrySize < 8 \/ offset + entrySize > Len(data)
             THEN scan' = [scan EXCEPT !.state = "returned",
                                       !.seen = @ \cup { [offset |-> offset, size |-> entrySize] }]
           ELSE scan' = [scan EXCEPT !.offset = offset + entrySize,
                                     !.index = @ + 1,
                                     !.seen = @ \cup { [offset |-> offset, size |-> entrySize] }]
  /\ UNCHANGED << inputs, driver, call, ret >>

\* parseAaxFile, lines 70-88: the ftyp header and the brand are read and
\* checked, and the scan for the moov box starts behind the ftyp box.
EnterParseAaxFile ==
  /\ scan.state = "idle"
  /\ \E ftyp \in { << >>, U32(12) \o TypeFtyp \o BrandAax, U32(12) \o TypeFree \o BrandAax },
        list \in BoxLists(MaxBoxes) :
       LET file == ftyp \o list
           ftypHeader == readBoxHeader(file, 0)
       IN  scan' = IF ~ftypHeader.present \/ ftypHeader.val.type # TypeFtyp
                     THEN [NoScan EXCEPT !.fn = "parseAaxFile", !.data = file, !.state = "threw"]
                     ELSE [NoScan EXCEPT !.fn = "parseAaxFile", !.data = file,
                                         !.offset = ftypHeader.val.size, !.state = "running"]
  /\ UNCHANGED << inputs, driver, call, ret >>

\* Mutant: the scan for the moov box does not stop at a box of size 0.
FindMoovStep_NoZeroCheck ==
  /\ scan.state = "running"
  /\ scan.fn = "parseAaxFile"
  /\ LET header == readBoxHeader(scan.data, scan.offset)
     IN  IF ~header.present
           THEN scan' = [scan EXCEPT !.state = "threw"]
           ELSE scan' = [scan EXCEPT !.offset = @ + header.val.size,
                                     !.seen = @ \cup { [offset |-> scan.offset,
                                                        size |-> header.val.size] }]
  /\ UNCHANGED << inputs, driver, call, ret >>

\* One pass of parseAaxFile's scan for the moov box, lines 90-109: it ends
\* without a moov box (an Error) when no header can be read or the size is 0,
\* ends at a moov box (an Error when its content cannot be read; a content
\* size below 0 is handed to readBytes, which yields null or no bytes), and
\* else goes on behind the box.
FindMoovStep ==
  /\ scan.state = "running"
  /\ scan.fn = "parseAaxFile"
  /\ LET header == readBoxHeader(scan.data, scan.offset)
         contentSize == header.val.size - header.val.headerSize
         here == [offset |-> scan.offset, size |-> header.val.size]
     IN  IF ~header.present
           THEN scan' = [scan EXCEPT !.state = "threw"]
           ELSE IF header.val.size = 0
             THEN scan' = [scan EXCEPT !.state = "threw", !.seen = @ \cup { here }]
           ELSE IF header.val.type = TypeMoov
             THEN \E outcome \in { "returned", "threw" } :
                    /\ contentSize >= 0 =>
                         outcome = IF scan.offset + header.val.headerSize + contentSize
                                        > Len(scan.data)
                                     THEN "threw" ELSE "returned"
                    /\ scan' = [scan EXCEPT !.state = outcome, !.seen = @ \cup { here }]
           ELSE scan' = [scan EXCEPT !.offset = @ + header.val.size, !.seen = @ \cup { here }]
  /\ UNCHANGED << inputs, driver, call, ret >>

\* ------------------------------------- src/converter.ts, generateOutputPath

\* Characters sanitizeName removes: / \ ? * " < > |
Forbidden == { "/", "\\", "?", "*", "\"", "<", ">", "|" }

\* .replace(/:/g, ' -')
RECURSIVE ReplaceColons(_)
ReplaceColons(name) ==
  IF name = << >> THEN << >>
  ELSE (IF Head(name) = ":" THEN << " ", "-" >> ELSE << Head(name) >>)
         \o ReplaceColons(Tail(name))

\* .replace(/[/\\?*"<>|]/g, '')
RemoveForbidden(name) == SelectSeq(name, LAMBDA c : c \notin Forbidden)

\* .replace(/\s+/g, ' ')
RECURSIVE CollapseWhitespace(_)
CollapseWhitespace(name) ==
  IF name = << >> THEN << >>
  ELSE IF Head(name) \in Whitespace
    THEN IF Len(name) > 1 /\ name[2] \in Whitespace
           THEN CollapseWhitespace(Tail(name))
           ELSE << " " >> \o CollapseWhitespace(Tail(name))
    ELSE << Head(name) >> \o CollapseWhitespace(Tail(name))

\* .trim()
RECURSIVE Trim(_)
Trim(name) ==
  IF name = << >> THEN << >>
  ELSE IF Head(name) \in Whitespace THEN Trim(Tail(name))
  ELSE IF name[Len(name)] \in Whitespace THEN Trim(SubSeq(name, 1, Len(name) - 1))
  ELSE name

\* Mutant: the colons are replaced last, after the whitespace was collapsed
\* and trimmed.
sanitizeName_ColonsLast(name) ==
  ReplaceColons(Trim(CollapseWhitespace(RemoveForbidden(name))))

\* sanitizeName, lines 15-21
sanitizeName(name) == Trim(CollapseWhitespace(RemoveForbidden(ReplaceColons(name))))

\* title.split(':')[0]
RECURSIVE BeforeColon(_)
BeforeColon(title) ==
  IF title = << >> \/ Head(title) = ":" THEN << >>
  ELSE << Head(title) >> \o BeforeColon(Tail(title))

\* path.join(base, part) on paths as sequences of components: an empty part
\* adds nothing.
PathJoin(base, part) == IF part = << >> THEN base ELSE Append(base, part)

\* String(n).padStart(digits, '0') for n below 10
PadStart(n, digits) ==
  Array([i \in 1..(IF digits > 1 THEN digits - 1 ELSE 0) |-> "0"]) \o << HexDigits[n + 1] >>

\* The characters of an output format.
FormatChars(format) ==
  CASE format = "m4a" -> << "m", "4", "a" >>
    [] format = "mp3" -> << "m", "p", "3" >>
    [] OTHER -> << "m", "4", "b" >>

\* generateOutputPath, lines 23-62.  Absent texts are empty, absent numbers 0
\* (all falsy).  Yields the directory handed to mkdirSync and the path returned.
generateOutputPath(metadata, opts) ==
  LET outputDir == IF opts.outputDir # << >> THEN opts.outputDir
                   ELSE IF opts.configOutputDir # << >> THEN opts.configOutputDir
                   ELSE << "." >>
      outputFormat == IF opts.outputFormat # "" THEN opts.outputFormat
                      ELSE IF opts.configOutputFormat # "" THEN opts.configOutputFormat
                      ELSE "m4b"
      withAuthor == IF metadata.author # << >>
                      THEN PathJoin(<< outputDir >>, sanitizeName(metadata.author))
                      ELSE << outputDir >>
      withSeries == IF opts.seriesTitleInFolderStructure /\ metadata.series # << >>
                      THEN PathJoin(withAuthor, sanitizeName(metadata.series))
                      ELSE withAuthor
      bookFolder == IF opts.fullCaptionForBookFolder THEN metadata.title
                    ELSE BeforeColon(metadata.title)
      withBook == IF bookFolder # << >> THEN PathJoin(withSeries, sanitizeName(bookFolder))
                  ELSE withSeries
      basePath == IF ~opts.flatFolderStructure THEN withBook ELSE << outputDir >>
      title == sanitizeName(IF metadata.title # << >> THEN metadata.title ELSE opts.inputBasename)
      filename == IF metadata.seriesIndex # 0 /\ opts.sequenceNumberDigits # 0
                    THEN opts.partFolderPrefix
                           \o PadStart(metadata.seriesIndex, opts.sequenceNumberDigits)
                           \o << " ", "-", " " >> \o title
                    ELSE title
  IN  [dir |-> basePath,
       path |-> PathJoin(basePath, filename \o << "." >> \o FormatChars(outputFormat))]

\* Book metadata and path options generateOutputPath is called with.
MetadataSet ==
  [title : { << >>, << "T" >>, << "T", ":", " ", "S" >> },
   author : { << >>, << "A", " ", "B" >>, << " ", "A", "/", "B", "?" >> },
   series : { << >>, << "S", "1" >> },
   seriesIndex : { 0, 3 }]

PathOptionSet ==
  [outputDir : { << >>, << "o", "u", "t" >> },
   configOutputDir : { << ".", "/", "c", "o", "n", "v", "e", "r", "t", "e", "d" >> },
   outputFormat : { "", "m4a" },
   configOutputFormat : { "m4b" },
   flatFolderStructure : BOOLEAN,
   seriesTitleInFolderStructure : BOOLEAN,
   fullCaptionForBookFolder : BOOLEAN,
   partFolderPrefix : { << >> },
   sequenceNumberDigits : { 0, 2 },
   inputBasename : { << "b", "o", "o", "k" >> }]

\* Names handed to sanitizeName: every text of up to MaxNameLen characters
\* over a letter, a dash, a colon, two kinds of whitespace and a forbidden
\* character.
NameChars == { "a", "-", ":", " ", "\t", "/" }
NameSet == UNION { { Array(f) : f \in [1..n -> NameChars] } : n \in 0..MaxNameLen }

\* ------------------------------------------------- src/converter.ts, driver

NoKeys == [fileKey |-> << >>, fileIv |-> << >>]
NoResult == [done |-> FALSE, success |-> FALSE, error |-> "", outputPath |-> ""]
Failure(error) == [done |-> TRUE, success |-> FALSE, error |-> error, outputPath |-> ""]
Success(outputPath) == [done |-> TRUE, success |-> TRUE, error |-> "", outputPath |-> outputPath]

ErrNoInput == "No input file provided"
ErrMissing == "Input file does not exist"
ErrNoCode == "No activation code provided. This is required to convert AAX files."
ErrFormat == "Invalid activation code format"
ErrMismatch == "Activation code does not match this AAX file"
ErrMp3 == "MP3 output is not currently supported. Use m4b or m4a format."
ErrCaught == "Error during conversion"

\* The driver before convertAAX is entered.
DriverInit ==
  /\ pc = "start"
  /\ activationCode = NoText
  /\ activationBytes = << >>
  /\ attempts = << >>
  /\ keys = NoKeys
  /\ deriveCalls = 0
  /\ source = "none"
  /\ outDir = FALSE
  /\ outFile = "absent"
  /\ coverFile = FALSE
  /\ target = "none"
  /\ muxer = "none"
  /\ brand = ""
  /\ addedChapters = << >>
  /\ sampleIndex = 1
  /\ encrypted = << >>
  /\ packets = << >>
  /\ writePending = FALSE
  /\ timestamp = Num(0)
  /\ processedSamples = 0
  /\ result = NoResult

NoCall ==
  [fn |-> "none", adrm |-> << >>, act |-> << >>, ct |-> << >>, key |-> << >>, iv |-> << >>,
   text |-> << >>, file |-> << >>, metadata |-> << >>, opts |-> << >>, tables |-> << >>]

OptionSet ==
  [inputFile : { "", "missing.aax", "book.aax" },
   activationCode : CodeSet \cup { NoText },
   outputFormat : { "", "m4a", "mp3" },
   extractCoverImage : BOOLEAN,
   useNamedChapters : BOOLEAN]

EnvSet ==
  [configActivationCode : { NoText, Code1CEB00DA },
   cliActivationCode : { NoText, Code1CEB00DA },
   configOutputFormat : { "m4b", "mp3" },
   files : { { "book.aax" } }]

\* convertAAX is entered with some options, in some environment, on some file.
\* Inputs the code does not read on the path taken are held at one value, and
\* the fallback activation sources, the cover options and the output format
\* are varied one at a time.
Init ==
  /\ options \in OptionSet
  /\ env \in EnvSet
  /\ aaxFile \in AaxFiles
  /\ options.inputFile \notin env.files =>
       /\ options.activationCode \in { NoText, Code1CEB00DA } /\ options.outputFormat = ""
       /\ ~options.extractCoverImage
       /\ env.configActivationCode = NoText /\ env.cliActivationCode = NoText
       /\ ~aaxFile.parses
  /\ options.activationCode # NoText =>
       env.configActivationCode = NoText /\ env.cliActivationCode = NoText
  /\ options.activationCode = NoText =>
       options.outputFormat = "" /\ ~options.extractCoverImage /\ aaxFile.timescale # 0
  /\ ~aaxFile.parses => options.outputFormat = "" /\ ~options.extractCoverImage
  /\ options.extractCoverImage => options.outputFormat = ""
  /\ env.configOutputFormat # "m4b" =>
       /\ options.inputFile \in env.files /\ aaxFile.parses
       /\ options.activationCode # NoText
       /\ options.outputFormat = "" /\ ~options.extractCoverImage
  /\ ~options.extractCoverImage /\ aaxFile.parses => aaxFile.coverImage
  /\ ~options.useNamedChapters =>
       /\ options.inputFile \in env.files /\ aaxFile.parses
       /\ options.activationCode = Code1CEB00DA
       /\ options.outputFormat = "" /\ ~options.extractCoverImage
       /\ env.configOutputFormat = "m4b"
  /\ DriverInit
  /\ call = NoCall
  /\ ret = Throw
  /\ scan = NoScan

\* return of a ConversionResult
Return(res) ==
  /\ pc' = "done"
  /\ result' = res

\* Mutant: the catch block throws again, so that the promise is rejected and
\* no result is returned.
Caught_Rethrow ==
  /\ pc' = "done"
  /\ UNCHANGED result

\* The catch block of convertAAX (lines 313-324): report and return; nothing
\* is closed, deleted or renamed.
Caught == Return(Failure(ErrCaught))

\* Mutant: the existence of the input file is not tested.
CheckInput_NoExistsCheck ==
  /\ pc = "start"
  /\ IF options.inputFile = "" THEN Return(Failure(ErrNoInput))
     ELSE pc' = "resolve" /\ UNCHANGED result
  /\ UNCHANGED << inputs, direct, activationCode, activationBytes, attempts, keys,
                  deriveCalls, source, outDir, outFile, coverFile, target, muxer, brand, addedChapters,
                  sampleIndex, encrypted, packets, writePending, timestamp,
                  processedSamples >>

\* Lines 68-83: the input file must be named and must exist.
CheckInput ==
  /\ pc = "start"
  /\ IF options.inputFile = "" THEN Return(Failure(ErrNoInput))
     ELSE IF options.inputFile \notin env.files THEN Return(Failure(ErrMissing))
     ELSE pc' = "resolve" /\ UNCHANGED result
  /\ UNCHANGED << inputs, direct, activationCode, activationBytes, attempts, keys,
                  deriveCalls, source, outDir, outFile, coverFile, target, muxer, brand, addedChapters,
                  sampleIndex, encrypted, packets, writePending, timestamp,
                  processedSamples >>

\* Lines 85-104: options.activationCode || config.activationCode || the CLI's.
ResolveActivation ==
  /\ pc = "resolve"
  /\ LET code == IF options.activationCode # NoText THEN options.activationCode
                 ELSE IF env.configActivationCode # NoText THEN env.configActivationCode
                 ELSE env.cliActivationCode
     IN  /\ activationCode' = code
         /\ IF code = NoText THEN Return(Failure(ErrNoCode))
            ELSE pc' = "parse" /\ UNCHANGED result
  /\ UNCHANGED << inputs, direct, activationBytes, attempts, keys,
                  deriveCalls, source, outDir, outFile, coverFile, target, muxer, brand, addedChapters,
                  sampleIndex, encrypted, packets, writePending, timestamp,
                  processedSamples >>

\* Line 109: parseAaxFile opens a FileSource on the input and returns the
\* AaxFileInfo or throws.
ParseFile ==
  /\ pc = "parse"
  /\ source' = "open"
  /\ IF aaxFile.parses THEN pc' = "activation" /\ UNCHANGED result ELSE Caught
  /\ UNCHANGED << inputs, direct, activationCode, activationBytes, attempts, keys,
                  deriveCalls, outDir, outFile, coverFile, target, muxer, brand, addedChapters,
                  sampleIndex, encrypted, packets, writePending, timestamp,
                  processedSamples >>

\* Lines 128-137: decode the activation text.
ParseActivation ==
  /\ pc = "activation"
  /\ LET parsed == parseActivationBytes(activationCode)
     IN  IF parsed.ok
           THEN /\ activationBytes' = parsed.val
                /\ pc' = "validate"
                /\ UNCHANGED result
           ELSE /\ Return(Failure(ErrFormat))
                /\ UNCHANGED activationBytes
  /\ UNCHANGED << inputs, direct, activationCode, attempts, keys,
                  deriveCalls, source, outDir, outFile, coverFile, target, muxer, brand, addedChapters,
                  sampleIndex, encrypted, packets, writePending, timestamp,
                  processedSamples >>

\* Mutant: a failed validation returns the mismatch at once, without the
\* retry on the lowercased text.
ValidateActivation_NoRetry ==
  /\ pc = "validate"
  /\ LET isValid == validateActivationBytes(aaxFile.adrmContent, activationBytes).val
     IN  /\ attempts' = << [bytes |-> activationBytes, valid |-> isValid] >>
         /\ IF isValid THEN pc' = "derive" /\ UNCHANGED result
            ELSE Return(Failure(ErrMismatch))
  /\ UNCHANGED << inputs, direct, activationCode, activationBytes, keys,
                  deriveCalls, source, outDir, outFile, coverFile, target, muxer, brand, addedChapters,
                  sampleIndex, encrypted, packets, writePending, timestamp,
                  processedSamples >>

\* Mutant: the validation results are computed and logged but the driver goes
\* on to the key derivation whatever they are.
ValidateActivation_IgnoresResult ==
  /\ pc = "validate"
  /\ LET adrm == aaxFile.adrmContent
         isValid == validateActivationBytes(adrm, activationBytes).val
     IN  attempts' = << [bytes |-> activationBytes, valid |-> isValid] >>
  /\ pc' = "derive"
  /\ UNCHANGED << inputs, direct, activationCode, activationBytes, keys, result,
                  deriveCalls, source, outDir, outFile, coverFile, target, muxer, brand, addedChapters,
                  sampleIndex, encrypted, packets, writePending, timestamp,
                  processedSamples >>

\* Lines 139-172: validate the activation bytes; on failure validate the
\* bytes of the lowercased text once, and return the mismatch when that fails
\* too (or when decoding the lowercased text throws).
ValidateActivation ==
  /\ pc = "validate"
  /\ LET adrm == aaxFile.adrmContent
         isValid == validateActivationBytes(adrm, activationBytes).val
         lower == parseActivationBytes(toLowerCase(activationCode))
         isValidLower == validateActivationBytes(adrm, lower.val).val
         first == [bytes |-> activationBytes, valid |-> isValid]
     IN  IF isValid
           THEN /\ attempts' = << first >>
                /\ pc' = "derive"
                /\ UNCHANGED << activationBytes, result >>
           ELSE IF ~lower.ok
             THEN /\ attempts' = << first >>
                  /\ Return(Failure(ErrMismatch))
                  /\ UNCHANGED activationBytes
             ELSE /\ attempts' = << first, [bytes |-> lower.val, valid |-> isValidLower] >>
                  /\ IF isValidLower
                       THEN /\ activationBytes' = lower.val
                            /\ pc' = "derive"
                            /\ UNCHANGED result
                       ELSE /\ Return(Failure(ErrMismatch))
                            /\ UNCHANGED activationBytes
  /\ UNCHANGED << inputs, direct, activationCode, keys,
                  deriveCalls, source, outDir, outFile, coverFile, target, muxer, brand, addedChapters,
                  sampleIndex, encrypted, packets, writePending, timestamp,
                  processedSamples >>

\* Line 174: derive the file keys, once.
DeriveKeysStep ==
  /\ pc = "derive"
  /\ deriveCalls' = deriveCalls + 1
  /\ LET k == deriveKeys(aaxFile.adrmContent, activationBytes)
     IN  IF k.ok THEN keys' = k.val /\ pc' = "format" /\ UNCHANGED result
         ELSE Caught /\ UNCHANGED keys
  /\ UNCHANGED << inputs, direct, activationCode, activationBytes, attempts,
                  source, outDir, outFile, coverFile, target, muxer, brand, addedChapters,
                  sampleIndex, encrypted, packets, writePending, timestamp,
                  processedSamples >>

\* options.outputFormat || config.outputFormat || 'm4b'
OutputFormat ==
  IF options.outputFormat # "" THEN options.outputFormat
  ELSE IF env.configOutputFormat # "" THEN env.configOutputFormat
  ELSE "m4b"

\* generateOutputPath, lines 51-61: the file name with the format's extension.
OutputPath == IF OutputFormat = "m4a" THEN "book.m4a" ELSE "book.m4b"

\* Lines 177-192: mp3 is rejected.
CheckFormat_AcceptsMp3 ==
  /\ pc = "format"
  /\ pc' = "path"
  /\ UNCHANGED result
  /\ UNCHANGED << inputs, direct, activationCode, activationBytes, attempts, keys,
                  deriveCalls, source, outDir, outFile, coverFile, target, muxer, brand, addedChapters,
                  sampleIndex, encrypted, packets, writePending, timestamp,
                  processedSamples >>

CheckFormat ==
  /\ pc = "format"
  /\ IF OutputFormat = "mp3" THEN Return(Failure(ErrMp3))
     ELSE pc' = "path" /\ UNCHANGED result
  /\ UNCHANGED << inputs, direct, activationCode, activationBytes, attempts, keys,
                  deriveCalls, source, outDir, outFile, coverFile, target, muxer, brand, addedChapters,
                  sampleIndex, encrypted, packets, writePending, timestamp,
                  processedSamples >>

\* Line 194: generateOutputPath creates the output directory (mkdirSync,
\* which may throw).
GenerateOutputPath ==
  /\ pc = "path"
  /\ \/ outDir' = TRUE /\ pc' = "mux" /\ UNCHANGED result
     \/ Caught /\ UNCHANGED outDir
  /\ UNCHANGED << inputs, direct, activationCode, activationBytes, attempts, keys,
                  deriveCalls, source, outFile, coverFile, target, muxer, brand, addedChapters,
                  sampleIndex, encrypted, packets, writePending, timestamp,
                  processedSamples >>

\* Lines 200-239: the FileTarget on outputPath, the Mp4Muxer, its track,
\* metadata, artwork and chapters.  The target may create the file when it is
\* constructed or when the first bytes are written to it; any of the calls
\* after the constructors may throw.
CreateMuxer ==
  /\ pc = "mux"
  /\ target' = "open"
  /\ muxer' = "created"
  /\ brand' = "M4B "
  /\ addedChapters' = Array([i \in 1..Len(aaxFile.chapters) |->
                               [title |-> aaxFile.chapters[i].title,
                                timestamp |-> aaxFile.chapters[i].startTime * 1000]])
  /\ outFile' \in { outFile, "partial" }
  /\ \/ pc' = "start_muxer" /\ UNCHANGED result
     \/ Caught
  /\ UNCHANGED << inputs, direct, activationCode, activationBytes, attempts, keys,
                  deriveCalls, source, outDir, coverFile,
                  sampleIndex, encrypted, packets, writePending, timestamp,
                  processedSamples >>

\* Line 241: await muxer.start()
MuxerStart ==
  /\ pc = "start_muxer"
  /\ \/ muxer' = "started" /\ pc' = "loop" /\ UNCHANGED result
     \/ Caught /\ UNCHANGED muxer
  /\ UNCHANGED << inputs, direct, activationCode, activationBytes, attempts, keys,
                  deriveCalls, source, outDir, outFile, coverFile, target, brand, addedChapters,
                  sampleIndex, encrypted, packets, writePending, timestamp,
                  processedSamples >>

\* reader.readBytes(size) at reader.position = offset on an intact source: the
\* bytes, or null when they do not all lie inside the source.
ReadBytes(offset, size) ==
  IF offset + size > aaxFile.sourceLen THEN Throw
  ELSE Ok(Array([i \in 1..size |-> SourceByte(offset + i - 1)]))

\* Lines 252-259: position the reader and read the sample.  A read that
\* yields nothing (null: bytes past the end of the source, or a failed read)
\* logs a warning and goes on to the next sample; a rejected read is caught.
ReadSample ==
  /\ pc = "loop"
  /\ sampleIndex <= Len(aaxFile.samples)
  /\ LET sample == aaxFile.samples[sampleIndex]
         read == ReadBytes(sample.offset, sample.size)
     IN  \/ /\ read.ok
            /\ encrypted' = read.val
            /\ pc' = "decrypt"
            /\ UNCHANGED << sampleIndex, result >>
         \/ /\ sampleIndex' = sampleIndex + 1
            /\ UNCHANGED << encrypted, pc, result >>
         \/ /\ read.ok
            /\ Caught
            /\ UNCHANGED << encrypted, sampleIndex >>
  /\ UNCHANGED << inputs, direct, activationCode, activationBytes, attempts, keys,
                  deriveCalls, source, outDir, outFile, coverFile, target, muxer, brand, addedChapters,
                  packets, writePending, timestamp, processedSamples >>

\* Mutant: one decipher kept across the samples, so that a sample is
\* decrypted with the last ciphertext block of the sample written before it as
\* its IV.
DecryptAndWrite_ChainedIv ==
  /\ pc = "decrypt"
  /\ LET sample == aaxFile.samples[sampleIndex]
         before == IF packets = << >> THEN << >>
                   ELSE LET b == aaxFile.samples[packets[Len(packets)].sample]
                        IN  ReadBytes(b.offset, b.size).val
         iv == LastBlock(keys.fileIv, before)
         decrypted == decryptSample(encrypted, keys.fileKey, iv)
         durationSec == Seconds(sample.duration, aaxFile.timescale)
     IN  /\ packets' = Append(packets, [sample |-> sampleIndex,
                                        data |-> decrypted.val,
                                        timestamp |-> timestamp,
                                        duration |-> durationSec,
                                        isKeyframe |-> TRUE])
         /\ writePending' = TRUE
         /\ pc' = "writing"
         /\ UNCHANGED result
  /\ UNCHANGED << inputs, direct, activationCode, activationBytes, attempts, keys,
                  deriveCalls, source, outDir, outFile, coverFile, target, muxer, brand, addedChapters,
                  sampleIndex, encrypted, timestamp, processedSamples >>

\* Lines 261-273: decrypt the sample with the file key and IV and hand the
\* packet to muxer.writePacket.
DecryptAndWrite ==
  /\ pc = "decrypt"
  /\ LET sample == aaxFile.samples[sampleIndex]
         decrypted == decryptSample(encrypted, keys.fileKey, keys.fileIv)
         durationSec == Seconds(sample.duration, aaxFile.timescale)
     IN  IF decrypted.ok
           THEN /\ packets' = Append(packets, [sample |-> sampleIndex,
                                               data |-> decrypted.val,
                                               timestamp |-> timestamp,
                                               duration |-> durationSec,
                                               isKeyframe |-> TRUE])
                /\ writePending' = TRUE
                /\ pc' = "writing"
                /\ UNCHANGED result
           ELSE Caught /\ UNCHANGED << packets, writePending >>
  /\ UNCHANGED << inputs, direct, activationCode, activationBytes, attempts, keys,
                  deriveCalls, source, outDir, outFile, coverFile, target, muxer, brand, addedChapters,
                  sampleIndex, encrypted, timestamp, processedSamples >>

\* Lines 268-276: the await of writePacket resolves, and the running timestamp
\* and the count advance; or it rejects.
WriteComplete ==
  /\ pc = "writing"
  /\ writePending' = FALSE
  /\ encrypted' = << >>
  /\ \/ /\ timestamp' = FAdd(timestamp, packets[Len(packets)].duration)
        /\ processedSamples' = processedSamples + 1
        /\ sampleIndex' = sampleIndex + 1
        /\ pc' = "loop"
        /\ UNCHANGED result
     \/ /\ Caught
        /\ UNCHANGED << timestamp, processedSamples, sampleIndex >>
  /\ UNCHANGED << inputs, direct, activationCode, activationBytes, attempts, keys,
                  deriveCalls, source, outDir, outFile, coverFile, target, muxer, brand, addedChapters,
                  packets >>

\* Line 288: after the last sample, await muxer.finalize(), which writes the
\* file; a rejection leaves what was written so far.
Finalize ==
  /\ pc = "loop"
  /\ sampleIndex > Len(aaxFile.samples)
  /\ \/ /\ muxer' = "finalized"
        /\ outFile' = "complete"
        /\ pc' = "close_target"
        /\ UNCHANGED result
     \/ /\ outFile' \in { outFile, "partial" }
        /\ Caught
        /\ UNCHANGED muxer
  /\ UNCHANGED << inputs, direct, activationCode, activationBytes, attempts, keys,
                  deriveCalls, source, outDir, coverFile, target, brand, addedChapters,
                  sampleIndex, encrypted, packets, writePending, timestamp,
                  processedSamples >>

\* Line 289: await target.close?.()
CloseTarget ==
  /\ pc = "close_target"
  /\ \/ target' = "closed" /\ pc' = "close_source" /\ UNCHANGED result
     \/ Caught /\ UNCHANGED target
  /\ UNCHANGED << inputs, direct, activationCode, activationBytes, attempts, keys,
                  deriveCalls, source, outDir, outFile, coverFile, muxer, brand, addedChapters,
                  sampleIndex, encrypted, packets, writePending, timestamp,
                  processedSamples >>

\* Line 290: await aaxInfo.source.close?.()
CloseSource ==
  /\ pc = "close_source"
  /\ \/ source' = "closed" /\ pc' = "finish" /\ UNCHANGED result
     \/ Caught /\ UNCHANGED source
  /\ UNCHANGED << inputs, direct, activationCode, activationBytes, attempts, keys,
                  deriveCalls, outDir, outFile, coverFile, target, muxer, brand, addedChapters,
                  sampleIndex, encrypted, packets, writePending, timestamp,
                  processedSamples >>

\* Lines 292-311: save the cover when asked for and present (a failed write
\* is logged only), and return success.
Finish ==
  /\ pc = "finish"
  /\ IF options.extractCoverImage /\ aaxFile.coverImage
       THEN coverFile' \in BOOLEAN
       ELSE UNCHANGED coverFile
  /\ Return(Success(OutputPath))
  /\ UNCHANGED << inputs, direct, activationCode, activationBytes, attempts, keys,
                  deriveCalls, source, outDir, outFile, target, muxer, brand, addedChapters,
                  sampleIndex, encrypted, packets, writePending, timestamp,
                  processedSamples >>

Next ==
  \/ CheckInput
  \/ ResolveActivation
  \/ ParseFile
  \/ ParseActivation
  \/ ValidateActivation
  \/ DeriveKeysStep
  \/ CheckFormat
  \/ GenerateOutputPath
  \/ CreateMuxer
  \/ MuxerStart
  \/ ReadSample
  \/ DecryptAndWrite
  \/ WriteComplete
  \/ Finalize
  \/ CloseTarget
  \/ CloseSource
  \/ Finish

Spec == Init /\ [][Next]_vars

\* ------------------------------ direct calls of the aax-decryptor functions

\* No conversion is running.
CallInit ==
  /\ options = [inputFile |-> "", activationCode |-> NoText, outputFormat |-> "",
                extractCoverImage |-> FALSE, useNamedChapters |-> TRUE]
  /\ env = [configActivationCode |-> NoText, cliActivationCode |-> NoText,
            configOutputFormat |-> "m4b",
            files |-> { "book.aax" }]
  /\ aaxFile = [parses |-> FALSE, adrmContent |-> << >>, samples |-> << >>,
                timescale |-> 44100, sourceLen |-> 0, coverImage |-> FALSE,
                chapters |-> << >>]
  /\ DriverInit
  /\ call = NoCall
  /\ ret = Throw
  /\ scan = NoScan

CallValidate ==
  /\ call.fn = "none"
  /\ \E adrm \in AdrmSet, a \in ActSet :
       /\ call' = [NoCall EXCEPT !.fn = "validateActivationBytes", !.adrm = adrm, !.act = a]
       /\ ret' = validateActivationBytes(adrm, a)
  /\ UNCHANGED << inputs, driver, scan >>

CallDeriveKeys ==
  /\ call.fn = "none"
  /\ \E adrm \in AdrmSet, a \in ActSet :
       /\ call' = [NoCall EXCEPT !.fn = "deriveKeys", !.adrm = adrm, !.act = a]
       /\ ret' = deriveKeys(adrm, a)
  /\ UNCHANGED << inputs, driver, scan >>

CallDecryptSample ==
  /\ call.fn = "none"
  /\ \E ct \in CtSet, key \in KeySet, iv \in IvSet :
       /\ call' = [NoCall EXCEPT !.fn = "decryptSample", !.ct = ct, !.key = key, !.iv = iv]
       /\ ret' = decryptSample(ct, key, iv)
  /\ UNCHANGED << inputs, driver, scan >>

CallParseActivationBytes ==
  /\ call.fn = "none"
  /\ \E text \in TextSet :
       /\ call' = [NoCall EXCEPT !.fn = "parseActivationBytes", !.text = text]
       /\ ret' = parseActivationBytes(text)
  /\ UNCHANGED << inputs, driver, scan >>

CallIsValidActivationCode ==
  /\ call.fn = "none"
  /\ \E text \in TextSet :
       /\ call' = [NoCall EXCEPT !.fn = "isValidActivationCode", !.text = text]
       /\ ret' = Ok(isValidActivationCode(text))
  /\ UNCHANGED << inputs, driver, scan >>

CallParseAaxFile ==
  /\ call.fn = "none"
  /\ \E file \in ContainerSet :
       /\ call' = [NoCall EXCEPT !.fn = "parseAaxFile", !.file = file]
       /\ ret' = parseAaxFile(file)
  /\ UNCHANGED << inputs, driver, scan >>

CallGenerateOutputPath ==
  /\ call.fn = "none"
  /\ \E metadata \in MetadataSet, opts \in PathOptionSet :
       /\ call' = [NoCall EXCEPT !.fn = "generateOutputPath", !.metadata = metadata,
                                 !.opts = opts]
       /\ ret' = Ok(generateOutputPath(metadata, opts))
  /\ UNCHANGED << inputs, driver, scan >>

CallSanitizeName ==
  /\ call.fn = "none"
  /\ \E name \in NameSet :
       /\ call' = [NoCall EXCEPT !.fn = "sanitizeName", !.text = name]
       /\ ret' = Ok(sanitizeName(name))
  /\ UNCHANGED << inputs, driver, scan >>

\* The call at line 365.
CallBuildSampleTable ==
  /\ call.fn = "none"
  /\ \E t \in TableSet :
       /\ call' = [NoCall EXCEPT !.fn = "buildSampleTable", !.tables = t]
       /\ ret' = Ok(buildSampleTable(t.stts, t.stsc, t.stsz, t.stco, t.co64))
  /\ UNCHANGED << inputs, driver, scan >>

CallNext ==
  \/ CallBuildSampleTable
  \/ CallSanitizeName
  \/ CallParseAaxFile
  \/ CallGenerateOutputPath
  \/ CallValidate
  \/ CallDeriveKeys
  \/ CallDecryptSample
  \/ CallParseActivationBytes
  \/ CallIsValidActivationCode

CallSpec == CallInit /\ [][CallNext]_vars

\* ------------------------------------------ box list scans of aax-parser

\* No conversion and no direct call is running.
ScanInit == CallInit

ScanNext ==
  \/ EnterBoxLoop
  \/ BoxLoopStep
  \/ EnterParseStsd
  \/ ParseStsdStep
  \/ EnterParseAaxFile
  \/ FindMoovStep

\* A loop that can make a pass makes it.
ScanSpec == ScanInit /\ [][ScanNext]_vars /\ WF_vars(ScanNext)

\* ----------------------------------------------------------------- claims

\* The derivation as the specification writes it, on the digest and the CBC
\* decryption alone.
SHA1(data) == digest(hashUpdate(createHash, data))
IkFull(a) == SHA1(FIXED_KEY \o a)
IvFull(a) == SHA1(FIXED_KEY \o IkFull(a) \o a)
Ik(a) == SubSeq(IkFull(a), 1, 16)
Iv(a) == SubSeq(IvFull(a), 1, 16)
\* dec: the unpadded AES-128-CBC decryption of adrm[8..56] under Ik, Iv.
Dec(adrm, a) == CbcBlocks(Ik(a), Iv(a), SubSeq(adrm, 9, 56))

\* C1: validateActivationBytes never throws and returns true exactly when
\* adrm has at least 88 bytes and SHA1(ik[0..16] || iv[0..16]) equals
\* adrm[68..88]; a shorter adrm yields false.
C1_ValidateIsChecksumPredicate ==
  call.fn = "validateActivationBytes" =>
    /\ ret.ok
    /\ ret.val \in BOOLEAN
    /\ ret.val <=> /\ Len(call.adrm) >= 88
                   /\ SHA1(Ik(call.act) \o Iv(call.act)) = SubSeq(call.adrm, 69, 88)

\* C1 witness: validateActivationBytes has returned true for an adrm of at
\* least 88 bytes.
C1_Witness ==
  /\ call.fn = "validateActivationBytes"
  /\ ret.ok /\ ret.val = TRUE
  /\ Len(call.adrm) >= 88

\* C2: deriveKeys returns keys only when the first 4 bytes of the decrypted
\* DRM payload equal the byte-reversed activation value.
C2_KeysOnlyAfterSanityCheck ==
  (call.fn = "deriveKeys" /\ ret.ok) =>
    SubSeq(Dec(call.adrm, call.act), 1, 4) = Reverse(call.act)

\* The values deriveKeys is specified to return for adrm of at least 56 bytes:
\* fileKey = dec[8..24] and fileIv = SHA1(dec[26..42] || fileKey || FixedKey)[0..16],
\* both 16 bytes long.
C3_DerivedKeys ==
  (call.fn = "deriveKeys" /\ Len(call.adrm) >= 56) =>
    LET dec == Dec(call.adrm, call.act)
    IN  /\ ret.ok
        /\ ret.val.fileKey = SubSeq(dec, 9, 24)
        /\ ret.val.fileIv = SubSeq(SHA1(SubSeq(dec, 27, 42) \o ret.val.fileKey \o FIXED_KEY), 1, 16)
        /\ Len(ret.val.fileKey) = 16
        /\ Len(ret.val.fileIv) = 16

\* The byte ranges [IvSrcStart, IvSrcEnd) and [KeyStart, KeyEnd) of dec share a byte.
WindowsOverlap == (IvSrcStart..(IvSrcEnd - 1)) \cap (KeyStart..(KeyEnd - 1)) # {}

\* C3 as stated: for adrm of at least 56 bytes deriveKeys returns the
\* specified fileKey and fileIv, both 16 bytes long, and the window
\* dec[26..42] overlaps the key bytes dec[8..24].
C3_Original_WindowOverlapsKey ==
  (call.fn = "deriveKeys" /\ Len(call.adrm) >= 56) =>
    (C3_DerivedKeys /\ WindowsOverlap)

\* C3 amended: the same results, and the window dec[26..42] is a fixed
\* 16-byte window that lies behind the key bytes dec[8..24] and shares no
\* byte with them.
C3_Amended_WindowBehindKey ==
  (call.fn = "deriveKeys" /\ Len(call.adrm) >= 56) =>
    /\ C3_DerivedKeys
    /\ IvSrcEnd - IvSrcStart = 16
    /\ KeyEnd - KeyStart = 16
    /\ ~WindowsOverlap
    /\ KeyEnd <= IvSrcStart

\* C3 witness: deriveKeys has returned keys for an adrm of at least 56 bytes.
C3_Witness ==
  /\ call.fn = "deriveKeys"
  /\ Len(call.adrm) >= 56
  /\ ret.ok
  /\ Len(ret.val.fileKey) = 16

\* C4: decryptSample returns exactly as many bytes as the ciphertext has,
\* for every ciphertext length.
C4_LengthPreserved ==
  call.fn = "decryptSample" =>
    ret.ok /\ Len(ret.val) = Len(call.ct)

\* C4 witness: a ciphertext of whole blocks (the case padding handling would
\* shorten) has been decrypted.
C4_Witness ==
  /\ call.fn = "decryptSample"
  /\ Len(call.ct) >= 16 /\ Len(call.ct) % 16 = 0
  /\ ret.ok /\ Len(ret.val) = Len(call.ct)

\* C5: with aligned = n - (n mod 16), the output's bytes [aligned, n) are the
\* ciphertext's and its bytes [0, aligned) are the unpadded CBC decryption of
\* ct[0..aligned] under the key and IV; for n < 16 the output is ct.
C5_HeadDecryptedTailVerbatim ==
  call.fn = "decryptSample" =>
    LET n == Len(call.ct)
        aligned == n - (n % 16)
    IN  /\ ret.ok
        /\ SubSeq(ret.val, aligned + 1, n) = SubSeq(call.ct, aligned + 1, n)
        /\ SubSeq(ret.val, 1, aligned) = CbcBlocks(call.key, call.iv, SubSeq(call.ct, 1, aligned))
        /\ n < 16 => ret.val = call.ct

\* C5 witness: a ciphertext with whole blocks and a tail.
C5_Witness ==
  /\ call.fn = "decryptSample"
  /\ Len(call.ct) > 16 /\ Len(call.ct) % 16 # 0
  /\ ret.ok
  /\ SubSeq(ret.val, 1, 16) # SubSeq(call.ct, 1, 16)

\* The file keys the specification derives from the file's adrm and the
\* activation bytes in use.
DerivedKeys ==
  LET dec == Dec(aaxFile.adrmContent, activationBytes)
      fileKey == SubSeq(dec, 9, 24)
  IN  [fileKey |-> fileKey,
       fileIv  |-> SubSeq(SHA1(SubSeq(dec, 27, 42) \o fileKey \o FIXED_KEY), 1, 16)]

\* The ciphertext of sample j as it lies in the source file.
SampleCipher(j) ==
  LET e == aaxFile.samples[j]
  IN  Array([i \in 1..e.size |-> SourceByte(e.offset + i - 1)])

\* The plaintext of one ciphertext decrypted afresh from key and iv.
SamplePlain(ct, key, iv) ==
  LET aligned == Len(ct) - (Len(ct) % 16)
  IN  CbcBlocks(key, iv, SubSeq(ct, 1, aligned)) \o SubSeq(ct, aligned + 1, Len(ct))

\* C6: the keys are derived once and stay what they were derived to be, and
\* the plaintext handed to the muxer for a sample is the decryption of that
\* sample's ciphertext afresh from (fileKey, fileIv), whatever was decrypted
\* before it and wherever it stands in the sequence.
C6_EverySampleAfreshFromFileIv ==
  /\ deriveCalls <= 1
  /\ keys # NoKeys =>
       LET derived == DerivedKeys
       IN  /\ keys = derived
           /\ \A i \in 1..Len(packets) :
                packets[i].data =
                  SamplePlain(SampleCipher(packets[i].sample), derived.fileKey, derived.fileIv)
  /\ keys = NoKeys => packets = << >>

\* C6 witness: a conversion finished with two samples of at least one block
\* each decrypted and written.
C6_Witness ==
  /\ result.done /\ result.success
  /\ Len(packets) >= 2
  /\ Len(packets[1].data) >= 16 /\ Len(packets[2].data) >= 16

\* The specification's validator.
Validates(adrm, a) ==
  /\ Len(adrm) >= 88
  /\ SHA1(Ik(a) \o Iv(a)) = SubSeq(adrm, 69, 88)

\* The activation text convertAAX resolves.
ResolvedCode ==
  IF options.activationCode # NoText THEN options.activationCode
  ELSE IF env.configActivationCode # NoText THEN env.configActivationCode
  ELSE env.cliActivationCode

\* The input was parsed, the activation text decodes, and neither its bytes
\* nor the bytes of its lowercased form validate against the file's adrm.
ActivationMismatch ==
  /\ options.inputFile \in env.files
  /\ ResolvedCode # NoText
  /\ aaxFile.parses
  /\ parseActivationBytes(ResolvedCode).ok
  /\ ~Validates(aaxFile.adrmContent, parseActivationBytes(ResolvedCode).val)
  /\ ~Validates(aaxFile.adrmContent, parseActivationBytes(toLowerCase(ResolvedCode)).val)

\* C7: when the activation does not validate (after the retry), convertAAX
\* returns success=false with the mismatch error, and no output directory,
\* output file, target or muxer was created and deriveKeys was not called.
C7_MismatchCreatesNothing ==
  \/ /\ outDir = FALSE
     /\ outFile = "absent"
     /\ target = "none"
     /\ muxer = "none"
     /\ deriveCalls = 0
     /\ keys = NoKeys
     /\ result.done => (~result.success /\ result.error = ErrMismatch)
  \/ ~ActivationMismatch

\* C7 witness: convertAAX has returned after both validations failed.
C7_Witness ==
  /\ ActivationMismatch
  /\ result.done
  /\ Len(attempts) = 2
  /\ ~attempts[1].valid /\ ~attempts[2].valid

\* C8: after a failure past the creation of the target and muxer, the
\* partially written output is not left at the output path (the code has no
\* rename to .partial, so it would have to be gone).
C8_NoOutputLeftAfterFailure ==
  (result.done /\ ~result.success /\ target # "none") => outFile = "absent"

\* Sample j's bytes lie inside the source.
Readable(j) ==
  aaxFile.samples[j].offset + aaxFile.samples[j].size <= aaxFile.sourceLen

\* C9: a sample that cannot be read in full makes the conversion fail, and
\* success is never returned after fewer packets than the sample table has
\* entries.
C9_UnreadableSampleFails ==
  (result.done /\ result.success) =>
    /\ \A j \in 1..Len(aaxFile.samples) : Readable(j)
    /\ Len(packets) = Len(aaxFile.samples)

\* x === y on numbers (NaN equals nothing)
FEq(x, y) == x.kind # "nan" /\ y.kind # "nan" /\ x = y

\* The sum of the durations of the first m packets.
RECURSIVE SumDurations(_)
SumDurations(m) ==
  IF m = 0 THEN Num(0) ELSE FAdd(SumDurations(m - 1), packets[m].duration)

\* C10: sample i is read, decrypted and handed to writePacket, and that write
\* has completed, before sample i+1 is read; packets reach the muxer in
\* sample-table order; timestamps never decrease and each is the sum of the
\* durations of the packets before it.
C10_StrictSampleOrder ==
  /\ \A k \in 1..Len(packets) : packets[k].sample = k
  /\ pc = "decrypt" =>
       /\ Len(packets) = sampleIndex - 1
       /\ processedSamples = sampleIndex - 1
       /\ ~writePending
  /\ \A k \in 1..Len(packets) : FEq(packets[k].timestamp, SumDurations(k - 1))
  /\ \A k \in 1..(Len(packets) - 1) : FLeq(packets[k].timestamp, packets[k + 1].timestamp)

\* The hexadecimal digits and their values, as the specification's
\* /^[0-9a-fA-F]{8}$/ reads them.
DigitValue ==
  [c \in { "0", "1", "2", "3", "4", "5", "6", "7", "8", "9" } |->
     CASE c = "0" -> 0 [] c = "1" -> 1 [] c = "2" -> 2 [] c = "3" -> 3 [] c = "4" -> 4
       [] c = "5" -> 5 [] c = "6" -> 6 [] c = "7" -> 7 [] c = "8" -> 8 [] c = "9" -> 9]
  @@ [c \in { "a", "A" } |-> 10] @@ [c \in { "b", "B" } |-> 11]
  @@ [c \in { "c", "C" } |-> 12] @@ [c \in { "d", "D" } |-> 13]
  @@ [c \in { "e", "E" } |-> 14] @@ [c \in { "f", "F" } |-> 15]

\* The text is exactly 8 hexadecimal characters.
Canonical(text) ==
  Len(text) = 8 /\ \A i \in 1..Len(text) : text[i] \in DOMAIN DigitValue

\* C11: parseActivationBytes throws for, and isValidActivationCode returns
\* false for, every text that is not exactly 8 hexadecimal characters, and
\* both accept every text of exactly 8 hex digits in either letter case.
C11_OnlyCanonicalTextAccepted ==
  /\ call.fn = "parseActivationBytes" => (ret.ok <=> Canonical(call.text))
  /\ call.fn = "isValidActivationCode" => (ret.ok /\ (ret.val <=> Canonical(call.text)))

\* C12: for every text of exactly 8 hex digits parseActivationBytes returns
\* exactly 4 bytes, byte i having the value of the digits 2i and 2i+1 in
\* order ("1CEB00DA" gives 1C EB 00 DA), whatever the letter case.
C12_BytesFromDigitPairs ==
  (call.fn = "parseActivationBytes" /\ Canonical(call.text)) =>
    /\ ret.ok
    /\ Len(ret.val) = 4
    /\ \A i \in 1..4 :
         ret.val[i] = 16 * DigitValue[call.text[2 * i - 1]] + DigitValue[call.text[2 * i]]
    /\ call.text = Code1CEB00DA => ret.val = << 28, 235, 0, 218 >>
    /\ \A other \in TextSet :
         (Canonical(other) /\ toLowerCase(other) = toLowerCase(call.text)) =>
           parseActivationBytes(other).val = ret.val

\* C12 witness: "1CEB00DA" has been parsed to four bytes.
C12_Witness ==
  /\ call.fn = "parseActivationBytes"
  /\ call.text = Code1CEB00DA
  /\ ret.ok /\ Len(ret.val) = 4

\* C13: a failed validation of the activation as given is followed by exactly
\* one retry, on the bytes decoded from the lowercased text, and by no other
\* attempt; a failed retry returns the mismatch error; there are at most two
\* validation attempts and a second only after a failed first.
C13_OneLowercaseRetry ==
  /\ Len(attempts) <= 2
  /\ attempts # << >> =>
       /\ attempts[1].bytes = parseActivationBytes(activationCode).val
       /\ attempts[1].valid => Len(attempts) = 1
       /\ ~attempts[1].valid =>
            /\ Len(attempts) = 2
            /\ attempts[2].bytes = parseActivationBytes(toLowerCase(activationCode)).val
            /\ ~attempts[2].valid =>
                 (result.done /\ ~result.success /\ result.error = ErrMismatch)
       /\ attempts[Len(attempts)].valid => activationBytes = attempts[Len(attempts)].bytes
  /\ (result.done /\ result.error = ErrMismatch) =>
       (attempts # << >> /\ \A i \in 1..Len(attempts) : ~attempts[i].valid)

\* C13 witness: the first validation failed, the retry was made on the
\* lowercased text's bytes, and convertAAX returned the mismatch.
C13_Witness ==
  /\ Len(attempts) = 2
  /\ ~attempts[1].valid
  /\ attempts[2].bytes = parseActivationBytes(toLowerCase(activationCode)).val
  /\ result.done /\ result.error = ErrMismatch

\* The output format convertAAX resolves (options, then config, then m4b).
ResolvedFormat ==
  IF options.outputFormat # "" THEN options.outputFormat
  ELSE IF env.configOutputFormat # "" THEN env.configOutputFormat
  ELSE "m4b"

C15_MissingInputFailsFirst ==
  (options.inputFile # "" /\ options.inputFile \notin env.files) =>
    /\ pc \in { "start", "done" }
    /\ result.done => (~result.success /\ result.error = ErrMissing)
    /\ activationCode = NoText
    /\ activationBytes = << >>
    /\ attempts = << >>
    /\ source = "none"
    /\ keys = NoKeys
    /\ outDir = FALSE /\ outFile = "absent" /\ target = "none" /\ muxer = "none"

\* C15 witness: the missing-input error was returned although an activation
\* code was supplied.
C15_Witness ==
  /\ options.inputFile \notin env.files
  /\ options.activationCode # NoText
  /\ result.done /\ result.error = ErrMissing

\* C16: every AaxFileInfo parseAaxFile returns has an adrmContent of at least
\* 88 bytes and a checksum of exactly 20 bytes equal to adrmContent[68..88];
\* a file without an adrm box, or with one too short for the checksum, makes
\* parseAaxFile fail.
C16_ReturnedAdrmHoldsChecksum ==
  (call.fn = "parseAaxFile" /\ ret.ok) =>
    /\ Len(ret.val.adrmContent) >= 88
    /\ ret.val.checksum.present
    /\ Len(ret.val.checksum.val) = 20
    /\ ret.val.checksum.val = SubSeq(ret.val.adrmContent, 69, 88)

\* The called file's audio track has no stts, no stsz, or neither stco nor co64.
SampleTableIncomplete ==
  /\ call.file.moov.present
  /\ call.file.moov.val.audio.present
  /\ LET stbl == call.file.moov.val.audio.val.stbl
     IN  \/ ~stbl.stts.present
         \/ ~stbl.stsz.present
         \/ (~stbl.stco.present /\ ~stbl.co64.present)

\* C17: a file whose audio sample table lacks stts, stsz, or both stco and
\* co64 makes parseAaxFile fail; it never returns for such a file.
C17_IncompleteSampleTableFails ==
  (call.fn = "parseAaxFile" /\ SampleTableIncomplete) => ~ret.ok

\* C19: the chapters parseAaxFile returns are contiguous and ordered: each
\* chapter's start is at most its end, and each next chapter starts where
\* the one before it ends, for every text track.
C19_ChaptersContiguous ==
  (call.fn = "parseAaxFile" /\ ret.ok) =>
    LET chapters == ret.val.chapters
    IN  /\ \A i \in 1..Len(chapters) : FLeq(chapters[i].startTime, chapters[i].endTime)
        /\ \A i \in 1..(Len(chapters) - 1) :
             FEq(chapters[i + 1].startTime, chapters[i].endTime)

\* C18: the major brand written to the output follows the output format:
\* "M4B " for m4b and "M4A " for m4a.
C18_BrandFollowsFormat ==
  muxer # "none" =>
    /\ ResolvedFormat = "m4b" => brand = "M4B "
    /\ ResolvedFormat = "m4a" => brand = "M4A "

\* The output directory and the file name <sanitized title>.<ext> of a call.
CalledOutputDir ==
  IF call.opts.outputDir # << >> THEN call.opts.outputDir ELSE call.opts.configOutputDir

CalledFileName ==
  sanitizeName(call.metadata.title) \o << "." >>
    \o (IF call.opts.outputFormat = "m4a" THEN << "m", "4", "a" >> ELSE << "m", "4", "b" >>)

\* C20: for a book with author and title, when the folder structure is not
\* flat the path is <output_dir>/<sanitized author>/[<sanitized series>/]
\* <sanitized title>.<ext>, the series there only when series-in-folder is
\* on and a series is known, with no other directory component; when it is
\* flat the path is <output_dir>/<sanitized title>.<ext>.
C20_OutputPathRule ==
  (/\ call.fn = "generateOutputPath"
   /\ call.metadata.title # << >>
   /\ call.metadata.author # << >>) =>
    ret.val.path =
      IF call.opts.flatFolderStructure
        THEN << CalledOutputDir, CalledFileName >>
        ELSE << CalledOutputDir, sanitizeName(call.metadata.author) >>
               \o (IF call.opts.seriesTitleInFolderStructure /\ call.metadata.series # << >>
                     THEN << sanitizeName(call.metadata.series) >> ELSE << >>)
               \o << CalledFileName >>

\* The characters of a text that are not whitespace, in order.
NonBlank(text) == SelectSeq(text, LAMBDA c : c \notin Whitespace)

\* A text with its forbidden characters dropped and '-' for every ':'.
Dashed(text) ==
  LET kept == SelectSeq(text, LAMBDA c : c \notin Forbidden)
  IN  Array([i \in 1..Len(kept) |-> IF kept[i] = ":" THEN "-" ELSE kept[i]])

\* C21: what sanitizeName returns holds none of : / \ ? * " < > |, neither
\* starts nor ends with whitespace, holds no two whitespace characters in a
\* row, and reads, whitespace apart, as the input with its forbidden
\* characters dropped and a dash for every colon, the dash of a colon behind
\* a space unless it starts the name; sanitizing it again changes nothing.
C21_SanitizeNameContract ==
  call.fn = "sanitizeName" =>
    LET out == ret.val
    IN  /\ \A i \in 1..Len(out) : out[i] \notin Forbidden \cup { ":" }
        /\ out # << >> => out[1] \notin Whitespace /\ out[Len(out)] \notin Whitespace
        /\ \A i \in 1..(Len(out) - 1) :
             ~(out[i] \in Whitespace /\ out[i + 1] \in Whitespace)
        /\ NonBlank(out) = NonBlank(Dashed(call.text))
        /\ (\A i \in 1..Len(call.text) : call.text[i] # "-") =>
             \A i \in 2..Len(out) : out[i] = "-" => out[i - 1] = " "
        /\ sanitizeName(out) = out

\* A name with a colon, whitespace to collapse and a forbidden character was
\* sanitized.
C21_Witness ==
  /\ call.fn = "sanitizeName"
  /\ \E i, j, k \in 1..Len(call.text) :
       /\ call.text[i] = ":"
       /\ call.text[j] \in Whitespace
       /\ call.text[k] \in Forbidden
  /\ ret.val = << "-" >>

\* The title `Chapter N`.
ChapterN(n) == << "C", "h", "a", "p", "t", "e", "r", " " >> \o << HexDigits[n + 1] >>

\* C22: the chapters handed to the muxer carry the titles read from the
\* input when useNamedChapters is on, and the titles Chapter 1, Chapter 2,
\* ... when it is off.
C22_ChapterTitlesFollowOption ==
  muxer \in { "started", "finalized" } =>
    /\ Len(addedChapters) = Len(aaxFile.chapters)
    /\ \A i \in 1..Len(addedChapters) :
         addedChapters[i].title = IF options.useNamedChapters THEN aaxFile.chapters[i].title
                             ELSE ChapterN(i)

\* C23: the source is closed before the muxer's finalize step starts, and a
\* sample is read from an open source only.
C23_SourceReleasedBeforeFinalize ==
  /\ muxer = "finalized" => source = "closed"
  /\ pc \in { "decrypt", "writing" } => source = "open"

\* C27: convertAAX always settles with a result: success with an output
\* path and no error, or failure with a non-empty error and no output path.
C27_AlwaysSettlesWithResult ==
  /\ pc = "done" <=> result.done
  /\ result.done =>
       IF result.success THEN result.outputPath # "" /\ result.error = ""
       ELSE result.error # "" /\ result.outputPath = ""

\* An error thrown inside the conversion, with the output file begun, was
\* turned into a failure result.
C27_Witness ==
  /\ result.done /\ ~result.success /\ result.error = ErrCaught
  /\ target = "open"

\* C28: when convertAAX has returned and parseAaxFile had opened the input,
\* the source is closed.
C28_SourceClosedOnReturn ==
  (pc = "done" /\ source # "none") => source = "closed"

\* C30: the lowercased text decodes to the bytes of the text as given, so
\* the retry is made on the bytes of the first attempt and gives its
\* result: never a rejected first validation and an accepted retry.
C30_RetrySameBytes ==
  attempts # << >> =>
    /\ parseActivationBytes(toLowerCase(activationCode)) = parseActivationBytes(activationCode)
    /\ Len(attempts) = 2 =>
         /\ attempts[2].bytes = attempts[1].bytes
         /\ attempts[2].valid = attempts[1].valid
    /\ ~(\E i \in 1..Len(attempts) : i > 1 /\ ~attempts[1].valid /\ attempts[i].valid)

\* The retry was made for a text with uppercase digits.
C30_Witness ==
  /\ Len(attempts) = 2
  /\ activationCode = Code1CEB00DA
  /\ toLowerCase(activationCode) # activationCode
  /\ attempts[2].bytes = << 28, 235, 0, 218 >>

\* The tables of a buildSampleTable call as the container format reads them:
\* the chunk offsets, the sample sizes, and for chunk c (0-based) the
\* samples_per_chunk of the last stsc entry whose first_chunk <= c + 1, one
\* without an stsc box.
CalledChunkOffsets ==
  IF call.tables.co64.present THEN call.tables.co64.val ELSE call.tables.stco.val

CalledSizes ==
  LET stsz == call.tables.stsz.val
  IN  IF stsz.defaultSampleSize # 0
        THEN Array([i \in 1..stsz.sampleCount |-> stsz.defaultSampleSize])
        ELSE SubSeq(stsz.entries, 1, Min(stsz.sampleCount, Len(stsz.entries)))

StscMatches(c) ==
  { i \in 1..Len(call.tables.stsc.val) : call.tables.stsc.val[i].firstChunk <= c + 1 }

PerChunk(c) ==
  IF ~call.tables.stsc.present THEN 1
  ELSE LET last == CHOOSE i \in StscMatches(c) : \A j \in StscMatches(c) : j <= i
       IN  call.tables.stsc.val[last].samplesPerChunk

\* The number of samples in the chunks before chunk c.
RECURSIVE SamplesBefore(_)
SamplesBefore(c) == IF c = 0 THEN 0 ELSE SamplesBefore(c - 1) + PerChunk(c - 1)

\* C24: walking the chunks in order, chunk c takes the next PerChunk(c)
\* samples (those that are left, at the end of the samples); the first sample
\* of a chunk lies at the chunk's offset and every further one directly
\* behind the sample before it.
C24_ChunkWalk ==
  (/\ call.fn = "buildSampleTable"
   /\ call.tables.stsc.present =>
        \A c \in 0..(Len(CalledChunkOffsets) - 1) : StscMatches(c) # { }) =>
    LET out == ret.val
    IN  /\ Len(out) = Min(Len(CalledSizes), SamplesBefore(Len(CalledChunkOffsets)))
        /\ \A k \in 1..Len(out) :
             /\ out[k].size = CalledSizes[k]
             /\ \E c \in 0..(Len(CalledChunkOffsets) - 1) :
                  /\ SamplesBefore(c) < k /\ k <= SamplesBefore(c) + PerChunk(c)
                  /\ out[k].offset =
                       IF k = SamplesBefore(c) + 1 THEN CalledChunkOffsets[c + 1]
                       ELSE out[k - 1].offset + out[k - 1].size

\* Three samples were laid into a chunk of two and a chunk of one by an stsc
\* box of two entries.
C24_Witness ==
  /\ call.fn = "buildSampleTable"
  /\ call.tables.stsc.present /\ Len(call.tables.stsc.val) = 2
  /\ Len(ret.val) = 3
  /\ ret.val[1].offset = 100 /\ ret.val[2].offset = 100 + ret.val[1].size
  /\ ret.val[3].offset = 200

\* C25: the samples resolved are as many as the stsz box declares, whatever
\* tables the resolver is given.
C25_CountIsDeclaredSampleCount ==
  call.fn = "buildSampleTable" => Len(ret.val) = call.tables.stsz.val.sampleCount

\* A scan has ended.
ScanEnded == scan.state \in { "returned", "threw" }

\* The scan read a header whose size is less than 8 (0 apart, at top level,
\* where it means a box that extends to the end of the file) or reaches past
\* the end of the container.
MetMalformedBox ==
  \E h \in scan.seen :
    \/ h.size < 8 /\ ~(scan.fn = "parseAaxFile" /\ h.size = 0)
    \/ h.offset + h.size > Len(scan.data)

\* C26: a scan that met a box header with a size below 8 or past the end of
\* its container ends with an Error.
C26_MalformedBoxFails ==
  (ScanEnded /\ MetMalformedBox) => scan.state = "threw"

\* C29: every pass of a box list loop that does not end the scan moves the
\* offset forward, and every scan ends.
C29_ScansTerminate ==
  /\ [][(scan.state = "running" /\ scan'.state = "running") => scan'.offset > scan.offset]_vars
  /\ (scan.state = "running") ~> ScanEnded

\* The scan for the moov box went on behind a box of a size between 2 and 7,
\* read another header there, and ended.
C29_Witness ==
  /\ scan.fn = "parseAaxFile"
  /\ ScanEnded
  /\ \E h \in scan.seen : h.size \in 2..7
  /\ Cardinality(scan.seen) >= 2

====
